---- MODULE Spec2Model ----
(***************************************************************************)
(* Model of the filing classification / selection engine of src/app.py     *)
(* (Mzansi EDGAR fetcher): the two period classifiers, the feed            *)
(* aggregation and the selection scan of process_filing, the task          *)
(* pipeline, robust_get and the exhibit resolver.                          *)
(*                                                                         *)
(* Strings that the code formats or parses (period labels, form types,     *)
(* the fiscal-year-end month of the request) are sequences of one-         *)
(* character strings, so that formatting and parsing are real operations.  *)
(* A Python Optional is a record [isNone, val].                            *)
(***************************************************************************)
EXTENDS Integers, Sequences, FiniteSets, TLC

VARIABLES
    cl,                             \* one classifier call: arguments and return value
    pc,                             \* position of process_filing
    fy_month_str,                   \* request: fiscal-year-end month as sent by the client
    fy_adjust,                      \* request: "Same Year" | "Previous Year"
    latest_only,                    \* request flag
    fetch_mode,                     \* request: "10K_10Q" | "8K_Earnings"
    user_fy_end_month_int,          \* int(fy_month_str)
    all_filings_raw,                \* filing records read from the feed, then deduplicated and sorted
    resolver_result,                \* accession -> what get_earnings_release_exhibit_info returns for it
    scan_pos,                       \* number of records the current loop has handled
    potential_exhibits_with_filing, \* 8-K phase 1 result (sorted in place by phase 2)
    unique_verified_exhibits,       \* 8-K phase 2 result
    processed_periods,              \* claimed period labels
    tasks_to_submit,                \* emitted tasks, in emission order
    outcome,                        \* how the request ended
    submissions,                    \* what the EDGAR server answers: the index, its fragments
    pending,                        \* historical fetches submitted and not yet completed
    all_filing_sources,             \* fragments collected for aggregation
    requested,                      \* URLs requested so far
    pdf_files,                      \* result buckets "10-K", "10-Q", "8-K_ER"
    report_items,                   \* rows of the CSV report
    log_lines,                      \* warnings, errors and verdicts of the log transcript
    progress_data,                  \* the shared progress record
    response,                       \* what fetch_filing answers
    futures,                        \* the tasks in the worker pool
    rg,                             \* one robust_get call
    rs,                             \* one get_earnings_release_exhibit_info call
    th                              \* the threads at the progress lock: its holder, where the
                                    \* pipeline and a /progress request are, what the request read

feed_vars == <<submissions, pending, all_filing_sources, requested>>

result_vars == <<pdf_files, report_items, progress_data, response>>

call_vars == <<futures, rg, rs, th>>

vars == <<cl, pc, fy_month_str, fy_adjust, latest_only, fetch_mode,
          user_fy_end_month_int, all_filings_raw, resolver_result, scan_pos,
          potential_exhibits_with_filing, unique_verified_exhibits,
          processed_periods, tasks_to_submit, outcome, feed_vars, result_vars,
          log_lines, call_vars>>

-----------------------------------------------------------------------------
(* Bounds                                                                   *)

MaxFilings == 3         \* longest aggregated filing list of a run
MinYear == 1998         \* classifier inputs: first calendar year
MaxYear == 2026         \* classifier inputs: last calendar year
MaxFyemArg == 13        \* classifier inputs: integer month arguments 0..MaxFyemArg
MaxFragments == 2       \* most historical files a submissions document lists
MaxRetries == 5         \* robust_get: largest retries argument (the default)
MaxItems == 2           \* most links and table rows of a primary 8-K document
MaxTasks == 3           \* longest task list handed to the worker pool
MaxCalls == 3           \* classifier calls made one after the other
MaxAssets == 2          \* most images and stylesheets a downloaded document links

-----------------------------------------------------------------------------
(* Python values                                                            *)

NoneVal == [isNone |-> TRUE, val |-> <<>>]

Some(v) == [isNone |-> FALSE, val |-> v]

Date(y, m, d) == [year |-> y, month |-> m, day |-> d]

\* datetime.date ordering, used as the sort key
DateLT(a, b) ==
    \/ a.year < b.year
    \/ a.year = b.year /\ a.month < b.month
    \/ a.year = b.year /\ a.month = b.month /\ a.day < b.day

-----------------------------------------------------------------------------
(* String formatting and parsing                                            *)

Digits == <<"0", "1", "2", "3", "4", "5", "6", "7", "8", "9">>

IsDigit(c) == \E k \in 1..10 : Digits[k] = c

DigitVal(c) == (CHOOSE k \in 1..10 : Digits[k] = c) - 1

RECURSIVE DecStr(_)
\* str(n) for n >= 0
DecStr(n) ==
    IF n < 10 THEN <<Digits[n + 1]>>
    ELSE DecStr(n \div 10) \o <<Digits[(n % 10) + 1]>>

\* f"{n:02d}" for n >= 0: decimal, zero-padded to width 2
Fmt02d(n) == IF Len(DecStr(n)) < 2 THEN <<"0">> \o DecStr(n) ELSE DecStr(n)

RECURSIVE DigitsValue(_)
DigitsValue(s) ==
    IF s = <<>> THEN 0
    ELSE DigitsValue(SubSeq(s, 1, Len(s) - 1)) * 10 + DigitVal(s[Len(s)])

\* int(s) for a str: ok = FALSE stands for ValueError
ParseInt(s) ==
    IF Len(s) > 0 /\ \A k \in 1..Len(s) : IsDigit(s[k])
    THEN [ok |-> TRUE, val |-> DigitsValue(s)]
    ELSE [ok |-> FALSE, val |-> 0]

\* p in s (substring test)
Contains(s, p) ==
    \E k \in 1..(Len(s) - Len(p) + 1) : SubSeq(s, k, k + Len(p) - 1) = p

\* s.startswith(p)
StartsWith(s, p) == Len(s) >= Len(p) /\ SubSeq(s, 1, Len(p)) = p

\* s.split(p)[-1]: what follows the last occurrence of p, s itself without one
AfterLast(s, p) ==
    IF Contains(s, p)
    THEN LET k == CHOOSE j \in 1..(Len(s) - Len(p) + 1) :
                      /\ SubSeq(s, j, j + Len(p) - 1) = p
                      /\ \A m \in (j + 1)..(Len(s) - Len(p) + 1) :
                             SubSeq(s, m, m + Len(p) - 1) # p
         IN  SubSeq(s, k + Len(p), Len(s))
    ELSE s

\* s.split(p)[0]: what precedes the first occurrence of p, s itself without one
BeforeFirst(s, p) ==
    IF Contains(s, p)
    THEN LET k == CHOOSE j \in 1..(Len(s) - Len(p) + 1) :
                      /\ SubSeq(s, j, j + Len(p) - 1) = p
                      /\ \A m \in 1..(j - 1) : SubSeq(s, m, m + Len(p) - 1) # p
         IN  SubSeq(s, 1, k - 1)
    ELSE s

Form10K == <<"1", "0", "-", "K">>

Form10Q == <<"1", "0", "-", "Q">>

Form10KA == <<"1", "0", "-", "K", "/", "A">>

Form8K == <<"8", "-", "K">>

Form8KA == <<"8", "-", "K", "/", "A">>

-----------------------------------------------------------------------------
(* Period classifiers                                                       *)

\* int(fiscal_year_end_month): the argument is an int or a str
IntArg(a) == IF a.kind = "int" THEN [ok |-> TRUE, val |-> a.n] ELSE ParseInt(a.s)

\* a month argument that is an int
IntMonth(n) == [kind |-> "int", n |-> n, s |-> <<>>]

\* a month argument that is a str
StrMonth(s) == [kind |-> "str", n |-> 0, s |-> s]

\* variant of Distance_8k: the distance counted from the month itself
Distance_8k_mut(M, F) == ((M - F) % 12) + 1

\* d, the distance in months from the fiscal year end
Distance_8k(M, F) == ((M - F - 1) % 12) + 1

\* variant of FyEndYear_8k: '<' where the code has '<='
FyEndYear_8k_mut(filing_date, F, adjust) ==
    LET y0 == IF filing_date.month < F THEN filing_date.year - 1
              ELSE filing_date.year
    IN  IF adjust = "Previous Year" THEN y0 - 1 ELSE y0

\* fy_end_year after the basis adjustment
FyEndYear_8k(filing_date, F, adjust) ==
    LET y0 == IF filing_date.month <= F THEN filing_date.year - 1
              ELSE filing_date.year
    IN  IF adjust = "Previous Year" THEN y0 - 1 ELSE y0

get_8k_period_label_by_distance(filing_date, fiscal_year_end_month, adjust) ==
    LET p == IntArg(fiscal_year_end_month) IN
    IF ~p.ok THEN NoneVal
    ELSE
      LET F == p.val
          M == filing_date.month
          fy_end_year == FyEndYear_8k(filing_date, F, adjust)
          d == Distance_8k(M, F)
      IN  IF 1 <= d /\ d <= 3
          THEN Some(<<"F", "Y">> \o Fmt02d(fy_end_year % 100))
          ELSE IF 4 <= d /\ d <= 6
          THEN Some(<<"1", "Q">> \o Fmt02d((fy_end_year + 1) % 100))
          ELSE IF 7 <= d /\ d <= 9
          THEN Some(<<"2", "Q">> \o Fmt02d((fy_end_year + 1) % 100))
          ELSE Some(<<"3", "Q">> \o Fmt02d((fy_end_year + 1) % 100))

\* fyem: the month argument, 12 when unparseable or out of range
Fyem(fiscal_year_end_month) ==
    LET p == IntArg(fiscal_year_end_month) IN
    IF p.ok /\ 1 <= p.val /\ p.val <= 12 THEN p.val ELSE 12

\* variant of LabelYear: '<' where the code has '<='
LabelYear_mut(report_date, fyem, adjust) ==
    LET fiscal_year_end_year ==
            IF report_date.month < fyem THEN report_date.year
            ELSE report_date.year + 1
    IN  IF adjust = "Previous Year" THEN fiscal_year_end_year - 1
        ELSE fiscal_year_end_year

\* fiscal_year_label_year
LabelYear(report_date, fyem, adjust) ==
    LET fiscal_year_end_year ==
            IF report_date.month <= fyem THEN report_date.year
            ELSE report_date.year + 1
    IN  IF adjust = "Previous Year" THEN fiscal_year_end_year - 1
        ELSE fiscal_year_end_year

\* variant of Quarter: no clamp
Quarter_mut(month, fyem) ==
    LET months_past_fye_start == (month - ((fyem % 12) + 1) + 12) % 12
    IN  (months_past_fye_start \div 3) + 1

\* variant of Quarter: the fiscal year starts in the month it ends in
Quarter_mut2(month, fyem) ==
    LET months_past_fye_start == (month - fyem + 12) % 12
        quarter == (months_past_fye_start \div 3) + 1
    IN  IF quarter > 3 THEN 3 ELSE quarter

\* quarter of a 10-Q, with the clamp to 1..3
Quarter(month, fyem) ==
    LET months_past_fye_start == (month - ((fyem % 12) + 1) + 12) % 12
        quarter == (months_past_fye_start \div 3) + 1
    IN  IF quarter < 1 \/ quarter > 3
        THEN LET months_before_fye == (fyem - month + 12) % 12
                 q2 == IF months_before_fye < 3 THEN 3
                       ELSE IF months_before_fye < 6 THEN 2
                       ELSE IF months_before_fye < 9 THEN 1
                       ELSE 3
                 lo == IF 3 < q2 THEN 3 ELSE q2
             IN  IF 1 > lo THEN 1 ELSE lo
        ELSE quarter

get_period_label_from_report_date(form, report_date, fiscal_year_end_month, adjust) ==
    LET fyem == Fyem(fiscal_year_end_month)
        fiscal_year_label_year == LabelYear(report_date, fyem, adjust)
    IN  IF form = Form10K
        THEN <<"F", "Y">> \o Fmt02d(fiscal_year_label_year % 100)
        ELSE IF form = Form10Q
        THEN DecStr(Quarter(report_date.month, fyem)) \o <<"Q">>
                 \o Fmt02d(fiscal_year_label_year % 100)
        ELSE <<"F", "Y">> \o Fmt02d(fiscal_year_label_year % 100)

-----------------------------------------------------------------------------
(* process_filing: aggregation tail                                         *)

RECURSIVE DedupByAccession_mut(_, _)
\* variant of DedupByAccession: the last record of every accession is kept
DedupByAccession_mut(fs, seen_accessions) ==
    IF fs = <<>> THEN <<>>
    ELSE IF \E k \in 2..Len(fs) : fs[k].accession_clean = Head(fs).accession_clean
         THEN DedupByAccession_mut(Tail(fs), seen_accessions)
         ELSE <<Head(fs)>> \o DedupByAccession_mut(Tail(fs), seen_accessions)

RECURSIVE DedupByAccession(_, _)
\* keep the first record of every accession_clean
DedupByAccession(fs, seen_accessions) ==
    IF fs = <<>> THEN <<>>
    ELSE IF Head(fs).accession_clean \in seen_accessions
         THEN DedupByAccession(Tail(fs), seen_accessions)
         ELSE <<Head(fs)>> \o
              DedupByAccession(Tail(fs), seen_accessions \cup {Head(fs).accession_clean})

RECURSIVE InsertByFilingDate(_, _)
\* x goes behind every element whose key is not greater
InsertByFilingDate(x, sorted) ==
    IF sorted = <<>> THEN <<x>>
    ELSE IF DateLT(x.filing_date, Head(sorted).filing_date)
         THEN <<x>> \o sorted
         ELSE <<Head(sorted)>> \o InsertByFilingDate(x, Tail(sorted))

RECURSIVE SortFrom(_, _)
SortFrom(fs, acc) ==
    IF fs = <<>> THEN acc
    ELSE SortFrom(Tail(fs), InsertByFilingDate(Head(fs), acc))

\* variant of SortByFilingDate: the list is left in feed order
SortByFilingDate_mut(fs) == fs

\* list.sort(key=lambda x: x['filing_date']): ascending and stable
SortByFilingDate(fs) == SortFrom(fs, <<>>)

-----------------------------------------------------------------------------
(* process_filing: cutoff and label claim                                   *)

EARLIEST_FISCAL_YEAR_SUFFIX == 17

\* year_suffix as the 10K_10Q branch parses it; ok = FALSE stands for ValueError
YearSuffix10K(period) ==
    IF StartsWith(period, <<"F", "Y">>) THEN ParseInt(SubSeq(period, 3, Len(period)))
    ELSE IF Contains(period, <<"Q">>) THEN ParseInt(AfterLast(period, <<"Q">>))
    ELSE [ok |-> TRUE, val |-> -1]

\* year_suffix as the 8K_Earnings branch parses it
YearSuffix8K(label) ==
    IF Contains(label, <<"Q">>) THEN ParseInt(AfterLast(label, <<"Q">>))
    ELSE IF Contains(label, <<"F", "Y">>) THEN ParseInt(AfterLast(label, <<"F", "Y">>))
    ELSE [ok |-> TRUE, val |-> -1]

\* variant of IsCutOff10K: no carve-out for the quarters of the cutoff year
IsCutOff10K_mut(period, year_suffix) ==
    year_suffix < EARLIEST_FISCAL_YEAR_SUFFIX
        /\ ~(year_suffix > 50 /\ EARLIEST_FISCAL_YEAR_SUFFIX < 50)

\* is_pre_fy17 or is_q1_q3_fy17, 10K_10Q branch
IsCutOff10K(period, year_suffix) ==
    LET is_pre_fy17 ==
            year_suffix < EARLIEST_FISCAL_YEAR_SUFFIX
                /\ ~(year_suffix > 50 /\ EARLIEST_FISCAL_YEAR_SUFFIX < 50)
        is_q1_q3_fy17 ==
            year_suffix = EARLIEST_FISCAL_YEAR_SUFFIX /\ Contains(period, <<"Q">>)
                /\ (\/ StartsWith(period, <<"1", "Q">>)
                    \/ StartsWith(period, <<"2", "Q">>)
                    \/ StartsWith(period, <<"3", "Q">>))
    IN  is_pre_fy17 \/ is_q1_q3_fy17

\* variant of IsCutOff8K: no carve-out for the quarters of the cutoff year
IsCutOff8K_mut(label, year_suffix) ==
    year_suffix < EARLIEST_FISCAL_YEAR_SUFFIX
        /\ ~(year_suffix > 50 /\ EARLIEST_FISCAL_YEAR_SUFFIX < 50)

\* is_pre_fy17 or is_q1_q3_fy17, 8K_Earnings branch
IsCutOff8K(label, year_suffix) ==
    LET is_pre_fy17 ==
            year_suffix < EARLIEST_FISCAL_YEAR_SUFFIX
                /\ ~(year_suffix > 50 /\ EARLIEST_FISCAL_YEAR_SUFFIX < 50)
        is_q1_q3_fy17 ==
            year_suffix = EARLIEST_FISCAL_YEAR_SUFFIX /\ Contains(label, <<"Q">>)
    IN  is_pre_fy17 \/ is_q1_q3_fy17

\* variant of AlreadyProcessed: the claim set is never consulted
AlreadyProcessed_mut(label, processed) == FALSE

\* label in processed_periods
AlreadyProcessed(label, processed) == label \in processed

-----------------------------------------------------------------------------
(* Inputs of a run                                                          *)

FyAdjusts == {"Same Year", "Previous Year"}

FetchModes == {"10K_10Q", "8K_Earnings"}

\* fy_month values a client can send: two months and one that is no number
RunFyMonthStrs == {<<"1", "2">>, <<"6">>, <<"a", "b", "c">>}

Urls == {"ex99-1.htm", "ex99-2.htm"}

Filing(form, fd, rd, doc, items) ==
    [accession_clean |-> 0, form |-> form, filing_date |-> fd, report_date |-> rd,
     primary_doc |-> doc, items |-> items]

\* records of the feed used for 10K_10Q runs
PeriodicFilings ==
    {Filing(Form8K, Date(2018, 2, 20), NoneVal, "doc.htm", <<"5.02">>),
     Filing(Form10Q, Date(2018, 5, 5), NoneVal, "doc.htm", <<"">>),
     Filing(Form10K, Date(2018, 2, 20), Some(Date(2017, 12, 31)), "", <<"">>),
     Filing(Form10K, Date(2017, 2, 20), Some(Date(2016, 12, 31)), "doc.htm", <<"">>),
     Filing(Form10Q, Date(2018, 2, 20), Some(Date(2017, 12, 31)), "doc.htm", <<"">>),
     Filing(Form10K, Date(2000, 2, 20), Some(Date(1999, 12, 31)), "doc.htm", <<"">>)}
    \cup
    {Filing(f, fd, Some(Date(2017, 12, 31)), "doc.htm", <<"">>) :
        f \in {Form10K, Form10KA}, fd \in {Date(2018, 2, 20), Date(2018, 5, 5)}}
    \cup
    {Filing(Form10Q, fd, Some(Date(2018, 3, 31)), "doc.htm", <<"">>) :
        fd \in {Date(2018, 2, 20), Date(2018, 5, 5)}}

\* records of the feed used for 8K_Earnings runs
EventFilings ==
    {Filing(Form8KA, Date(2019, 3, 1), NoneVal, "doc.htm", <<"2.02", "9.01">>),
     Filing(Form8K, Date(2019, 3, 1), NoneVal, "doc.htm", <<"5.02">>),
     Filing(Form8K, Date(2019, 3, 1), NoneVal, "", <<"2.02">>)}
    \cup
    {Filing(Form8K, fd, NoneVal, "doc.htm", <<"2.02", "9.01">>) :
        fd \in {Date(2017, 2, 15), Date(2019, 2, 10), Date(2019, 3, 1)}}

InputLists(pool) == UNION {[1..n -> pool] : n \in 0..MaxFilings}

\* the k-th record of the feed carries accession k
WithAccessions(fl) == [k \in 1..Len(fl) |-> [fl[k] EXCEPT !.accession_clean = k]]

\* the JSON value null in the 'items' array of the feed: no string splits into
\* an empty list, so the empty sequence stands for it
NullItems == <<>>

\* {item.strip() for item in items.split(',')}
ItemsSet(filing) == {filing.items[k] : k \in 1..Len(filing.items)}

\* the 8-K filter of phase 1
IsEarnings8K(filing) ==
    filing.form = Form8K /\ ("2.02" \in ItemsSet(filing) \/ "9.01" \in ItemsSet(filing))

ExhibitInfos == {NoneVal} \cup {Some([url |-> u]) : u \in Urls}

\* what the resolver can return for the filings it is asked about
ResolverChoices(fs) ==
    {r \in [1..Len(fs) -> ExhibitInfos] :
        \A k \in 1..Len(fs) :
            ~(IsEarnings8K(fs[k]) /\ fs[k].primary_doc # "") => r[k] = NoneVal}

\* no classifier call under way
IdleCall == [fn |-> "none", form |-> <<>>, date |-> Date(0, 0, 0),
             fyem |-> IntMonth(0), adjust |-> "Same Year", d |-> 0,
             ret |-> NoneVal, done |-> FALSE]

\* pdf_files = {"10-K": [], "10-Q": [], "8-K_ER": []}
EmptyBuckets == [k \in {"10-K", "10-Q", "8-K_ER"} |-> <<>>]

\* progress_data = {"text": "", "total": 0, "current": 0}
InitialProgress == [text |-> "", total |-> 0, current |-> 0]

\* no feed in play
IdleFeed ==
    /\ submissions = <<>>
    /\ pending = {}
    /\ all_filing_sources = <<>>
    /\ requested = {}

\* nothing produced yet, nothing answered yet
IdleResults ==
    /\ pdf_files = EmptyBuckets
    /\ report_items = <<>>
    /\ log_lines = <<>>
    /\ progress_data = InitialProgress
    /\ response = NoneVal

\* no pool, no robust_get call and no resolver call in play
\* nobody holds progress_lock, no /progress request is being served
IdleThreads == [holder |-> "free", orch |-> "idle", poll |-> "idle", seen |-> NoneVal]

IdleCalls ==
    /\ futures = <<>>
    /\ rg = <<>>
    /\ rs = <<>>
    /\ th = IdleThreads

Init ==
    /\ cl = IdleCall
    /\ pc = "start"
    /\ fy_month_str \in RunFyMonthStrs
    /\ fy_adjust \in FyAdjusts
    /\ latest_only \in BOOLEAN
    /\ fetch_mode \in FetchModes
    /\ \E fl \in InputLists(IF fetch_mode = "10K_10Q" THEN PeriodicFilings
                            ELSE EventFilings) :
           all_filings_raw = WithAccessions(fl)
    /\ resolver_result \in
           (IF fetch_mode = "8K_Earnings" THEN ResolverChoices(all_filings_raw)
            ELSE {[k \in 1..Len(all_filings_raw) |-> NoneVal]})
    /\ user_fy_end_month_int = 0
    /\ scan_pos = 0
    /\ potential_exhibits_with_filing = <<>>
    /\ unique_verified_exhibits = <<>>
    /\ processed_periods = {}
    /\ tasks_to_submit = <<>>
    /\ outcome = "running"
    /\ IdleFeed /\ IdleResults /\ IdleCalls

-----------------------------------------------------------------------------
(* process_filing                                                           *)

request_vars == <<fy_month_str, fy_adjust, latest_only, fetch_mode, resolver_result>>

\* what the selection scan leaves alone
rest_vars == <<feed_vars, result_vars, log_lines, call_vars>>

\* user_fy_end_month_int = int(fy_month_str); a ValueError leaves process_filing
\* and fetch_filing answers with an internal server error
Start ==
    /\ pc = "start"
    /\ LET p == ParseInt(fy_month_str) IN
       IF p.ok
       THEN /\ user_fy_end_month_int' = p.val
            /\ pc' = "aggregate"
            /\ outcome' = outcome
       ELSE /\ user_fy_end_month_int' = user_fy_end_month_int
            /\ pc' = "done"
            /\ outcome' = "server_error"
    /\ UNCHANGED <<cl, rest_vars, request_vars, all_filings_raw, scan_pos,
                   potential_exhibits_with_filing, unique_verified_exhibits,
                   processed_periods, tasks_to_submit>>

\* all_filings_raw holds the records read from the feed (lines 1089-1157):
\* deduplicate by accession, sort by filing date, enter the scan of the mode
Aggregate ==
    /\ pc = "aggregate"
    /\ all_filings_raw' = SortByFilingDate(DedupByAccession(all_filings_raw, {}))
    /\ pc' = IF fetch_mode = "8K_Earnings" THEN "gather_8k" ELSE "scan_10k"
    /\ scan_pos' = 0
    /\ UNCHANGED <<cl, rest_vars, request_vars, user_fy_end_month_int,
                   potential_exhibits_with_filing, unique_verified_exhibits,
                   processed_periods, tasks_to_submit, outcome>>

\* s.replace('/', '-')
SlashToDash(s) == [k \in 1..Len(s) |-> IF s[k] = "/" THEN "-" ELSE s[k]]

\* variant of OutDir10K: the directory is named after the form alone
OutDir10K_mut(filing) ==
    <<"filing", <<>>, SlashToDash(BeforeFirst(filing.form, <<"/">>))>>

\* f"filing_{filing['accession_clean']}_{base_form.replace('/','-')}" under
\* tmp_dir: the parts the name is joined from
OutDir10K(filing) ==
    <<"filing", filing.accession_clean, SlashToDash(BeforeFirst(filing.form, <<"/">>))>>

\* f"filing_{acc_clean}_ER_{label.replace('/','-')}" under tmp_dir: the parts
\* the name is joined from
OutDir8K(filing, label) ==
    <<"filing", filing.accession_clean, <<"E", "R">>, SlashToDash(label)>>

\* the task of a 10-K/10-Q filing; the label travels in output_filename_base
Task10K(filing, period) ==
    [target_url |-> filing.primary_doc, form |-> filing.form,
     accession |-> filing.accession_clean, filing_date |-> filing.filing_date,
     assigned_period_label |-> period, filing_output_dir |-> OutDir10K(filing)]

\* the task of an 8-K earnings exhibit
Task8K(filing, exhibit_info, label) ==
    [target_url |-> exhibit_info.url, form |-> <<"8", "-", "K", "_", "E", "R">>,
     accession |-> filing.accession_clean, filing_date |-> filing.filing_date,
     assigned_period_label |-> label, filing_output_dir |-> OutDir8K(filing, label)]

\* variant of Scan10K: the records are iterated oldest-first
Scan10K_mut ==
    /\ pc = "scan_10k"
    /\ scan_pos < Len(all_filings_raw)
    /\ LET filing == all_filings_raw[scan_pos + 1]
           base_form == BeforeFirst(filing.form, <<"/">>)
           period == get_period_label_from_report_date(
                         base_form, filing.report_date.val,
                         IntMonth(user_fy_end_month_int), fy_adjust)
           ys == YearSuffix10K(period)
           cut == IsCutOff10K(period, ys.val)
           emit ==
               /\ base_form \in {Form10K, Form10Q}
               /\ ~filing.report_date.isNone
               /\ ys.ok
               /\ ~latest_only => ~cut /\ ~AlreadyProcessed(period, processed_periods)
               /\ filing.primary_doc # ""
               /\ latest_only => ~cut
       IN  IF emit
           THEN /\ tasks_to_submit' = Append(tasks_to_submit, Task10K(filing, period))
                /\ processed_periods' = processed_periods \cup {period}
                /\ pc' = IF latest_only THEN "execute" ELSE pc
           ELSE UNCHANGED <<tasks_to_submit, processed_periods, pc>>
    /\ scan_pos' = scan_pos + 1
    /\ UNCHANGED <<cl, rest_vars, request_vars, user_fy_end_month_int, all_filings_raw,
                   potential_exhibits_with_filing, unique_verified_exhibits, outcome>>

\* variant of Scan10K: a record without a primary document is not skipped
Scan10K_mut2 ==
    /\ pc = "scan_10k"
    /\ scan_pos < Len(all_filings_raw)
    /\ LET filing == all_filings_raw[Len(all_filings_raw) - scan_pos]
           base_form == BeforeFirst(filing.form, <<"/">>)
           period == get_period_label_from_report_date(
                         base_form, filing.report_date.val,
                         IntMonth(user_fy_end_month_int), fy_adjust)
           ys == YearSuffix10K(period)
           cut == IsCutOff10K(period, ys.val)
           emit ==
               /\ base_form \in {Form10K, Form10Q}
               /\ ~filing.report_date.isNone
               /\ ys.ok
               /\ ~latest_only => ~cut /\ ~AlreadyProcessed(period, processed_periods)
               /\ latest_only => ~cut
       IN  IF emit
           THEN /\ tasks_to_submit' = Append(tasks_to_submit, Task10K(filing, period))
                /\ processed_periods' = processed_periods \cup {period}
                /\ pc' = IF latest_only THEN "execute" ELSE pc
           ELSE UNCHANGED <<tasks_to_submit, processed_periods, pc>>
    /\ scan_pos' = scan_pos + 1
    /\ UNCHANGED <<cl, rest_vars, request_vars, user_fy_end_month_int, all_filings_raw,
                   potential_exhibits_with_filing, unique_verified_exhibits, outcome>>

\* one iteration of "for filing in reversed(all_filings_raw)"
Scan10K ==
    /\ pc = "scan_10k"
    /\ scan_pos < Len(all_filings_raw)
    /\ LET filing == all_filings_raw[Len(all_filings_raw) - scan_pos]
           base_form == BeforeFirst(filing.form, <<"/">>)
           period == get_period_label_from_report_date(
                         base_form, filing.report_date.val,
                         IntMonth(user_fy_end_month_int), fy_adjust)
           ys == YearSuffix10K(period)
           cut == IsCutOff10K(period, ys.val)
           emit ==
               /\ base_form \in {Form10K, Form10Q}
               /\ ~filing.report_date.isNone
               /\ ys.ok
               /\ ~latest_only => ~cut /\ ~AlreadyProcessed(period, processed_periods)
               /\ filing.primary_doc # ""
               /\ latest_only => ~cut
       IN  IF emit
           THEN /\ tasks_to_submit' = Append(tasks_to_submit, Task10K(filing, period))
                /\ processed_periods' = processed_periods \cup {period}
                /\ pc' = IF latest_only THEN "execute" ELSE pc
           ELSE UNCHANGED <<tasks_to_submit, processed_periods, pc>>
    /\ scan_pos' = scan_pos + 1
    /\ UNCHANGED <<cl, rest_vars, request_vars, user_fy_end_month_int, all_filings_raw,
                   potential_exhibits_with_filing, unique_verified_exhibits, outcome>>

\* the 10K_10Q loop ran out of records
EndScan10K ==
    /\ pc = "scan_10k"
    /\ scan_pos = Len(all_filings_raw)
    /\ pc' = "execute"
    /\ UNCHANGED <<cl, rest_vars, request_vars, user_fy_end_month_int, all_filings_raw, scan_pos,
                   potential_exhibits_with_filing, unique_verified_exhibits,
                   processed_periods, tasks_to_submit, outcome>>

\* phase 1, one iteration of "for filing in all_filings_raw": ask the resolver
\* about every 8-K with item 2.02 or 9.01 and a primary document
Gather8K ==
    /\ pc = "gather_8k"
    /\ scan_pos < Len(all_filings_raw)
    /\ LET filing == all_filings_raw[scan_pos + 1]
           exhibit_info == resolver_result[filing.accession_clean]
       IN  IF filing.items = NullItems
           THEN \* None.split raises AttributeError; no handler in the loop, the
                \* except clause of line 1373 ends the selection
                /\ pc' = "done"
                /\ outcome' = "main_error"
                /\ log_lines' = Append(log_lines, "ERROR: Main processing error")
                /\ UNCHANGED <<potential_exhibits_with_filing, scan_pos>>
           ELSE /\ IF IsEarnings8K(filing) /\ filing.primary_doc # ""
                      /\ ~exhibit_info.isNone
                   THEN potential_exhibits_with_filing' =
                            Append(potential_exhibits_with_filing,
                                   [filing_date |-> filing.filing_date,
                                    exhibit_info |-> exhibit_info.val,
                                    original_filing |-> filing])
                   ELSE UNCHANGED potential_exhibits_with_filing
                /\ scan_pos' = scan_pos + 1
                /\ UNCHANGED <<pc, outcome, log_lines>>
    /\ UNCHANGED <<cl, feed_vars, result_vars, call_vars, request_vars,
                   user_fy_end_month_int, all_filings_raw,
                   unique_verified_exhibits, processed_periods, tasks_to_submit>>

RECURSIVE DedupByUrl_mut(_, _)
\* variant of DedupByUrl: the last exhibit of every URL is kept
DedupByUrl_mut(es, seen_urls) ==
    IF es = <<>> THEN <<>>
    ELSE IF \E k \in 2..Len(es) : es[k].exhibit_info.url = Head(es).exhibit_info.url
         THEN DedupByUrl_mut(Tail(es), seen_urls)
         ELSE <<Head(es)>> \o DedupByUrl_mut(Tail(es), seen_urls)

RECURSIVE DedupByUrl(_, _)
\* keep the first exhibit of every URL
DedupByUrl(es, seen_urls) ==
    IF es = <<>> THEN <<>>
    ELSE IF Head(es).exhibit_info.url \in seen_urls
         THEN DedupByUrl(Tail(es), seen_urls)
         ELSE <<Head(es)>> \o
              DedupByUrl(Tail(es), seen_urls \cup {Head(es).exhibit_info.url})

\* phase 2: sort the potential exhibits by filing date, deduplicate by URL
Dedup8K ==
    /\ pc = "gather_8k"
    /\ scan_pos = Len(all_filings_raw)
    /\ potential_exhibits_with_filing' = SortByFilingDate(potential_exhibits_with_filing)
    /\ unique_verified_exhibits' = DedupByUrl(potential_exhibits_with_filing', {})
    /\ pc' = "label_8k"
    /\ scan_pos' = 0
    /\ UNCHANGED <<cl, rest_vars, request_vars, user_fy_end_month_int, all_filings_raw,
                   processed_periods, tasks_to_submit, outcome>>

\* phase 3, one iteration of "for exhibit_data in unique_verified_exhibits"
Label8K ==
    /\ pc = "label_8k"
    /\ scan_pos < Len(unique_verified_exhibits)
    /\ LET exhibit_data == unique_verified_exhibits[scan_pos + 1]
           filing == exhibit_data.original_filing
           label == get_8k_period_label_by_distance(
                        filing.filing_date, IntMonth(user_fy_end_month_int), fy_adjust)
           ys == YearSuffix8K(label.val)
           emit ==
               /\ ~label.isNone
               /\ ys.ok
               /\ ~latest_only => ~IsCutOff8K(label.val, ys.val)
               /\ ~AlreadyProcessed(label.val, processed_periods)
       IN  IF emit
           THEN /\ tasks_to_submit' =
                       Append(tasks_to_submit,
                              Task8K(filing, exhibit_data.exhibit_info, label.val))
                /\ processed_periods' = processed_periods \cup {label.val}
                /\ pc' = IF latest_only THEN "execute" ELSE pc
           ELSE UNCHANGED <<tasks_to_submit, processed_periods, pc>>
    /\ scan_pos' = scan_pos + 1
    /\ UNCHANGED <<cl, rest_vars, request_vars, user_fy_end_month_int, all_filings_raw,
                   potential_exhibits_with_filing, unique_verified_exhibits, outcome>>

\* the labelling loop ran out of exhibits
EndLabel8K ==
    /\ pc = "label_8k"
    /\ scan_pos = Len(unique_verified_exhibits)
    /\ pc' = "execute"
    /\ UNCHANGED <<cl, rest_vars, request_vars, user_fy_end_month_int, all_filings_raw, scan_pos,
                   potential_exhibits_with_filing, unique_verified_exhibits,
                   processed_periods, tasks_to_submit, outcome>>

\* "Execute Tasks": without a task the run ends with "No filings found matching
\* criteria", otherwise the task list goes to the worker pool
Execute ==
    /\ pc = "execute"
    /\ pc' = "done"
    /\ outcome' = IF tasks_to_submit = <<>> THEN "no_filings" ELSE "dispatched"
    /\ log_lines' = IF tasks_to_submit = <<>>
                    THEN Append(log_lines, "No filings found matching criteria")
                    ELSE log_lines
    /\ UNCHANGED <<cl, feed_vars, result_vars, call_vars, request_vars, user_fy_end_month_int, all_filings_raw, scan_pos,
                   potential_exhibits_with_filing, unique_verified_exhibits,
                   processed_periods, tasks_to_submit>>

Next ==
    \/ Start
    \/ Aggregate
    \/ Scan10K
    \/ EndScan10K
    \/ Gather8K
    \/ Dedup8K
    \/ Label8K
    \/ EndLabel8K
    \/ Execute

Spec == Init /\ [][Next]_vars

-----------------------------------------------------------------------------
(* The classifiers called on their own                                      *)

ClassifierForms == {Form10K, Form10Q, Form10KA, Form8K}

\* the 15th and the last day of every month (February: the 28th)
ClassifierDays(m) ==
    {15, IF m = 2 THEN 28 ELSE IF m \in {4, 6, 9, 11} THEN 30 ELSE 31}

ClassifierDates ==
    {Date(y, m, dd) : y \in MinYear..MaxYear, m \in 1..12, dd \in {15, 28, 30, 31}}
        \ {dt \in {Date(y, m, dd) : y \in MinYear..MaxYear, m \in 1..12,
                                    dd \in {15, 28, 30, 31}} :
              dt.day \notin ClassifierDays(dt.month)}

\* month arguments: integers, a numeric string and one that is no number
ClassifierMonths ==
    {IntMonth(n) : n \in 0..MaxFyemArg} \cup {StrMonth(<<"6">>), StrMonth(<<"a", "b", "c">>)}

InitClassify ==
    /\ \E fn \in {"report", "distance"} :
       \E f \in (IF fn = "report" THEN ClassifierForms ELSE {<<>>}) :
       \E dt \in ClassifierDates, fm \in ClassifierMonths, adj \in FyAdjusts :
           cl = [fn |-> fn, form |-> f, date |-> dt, fyem |-> fm, adjust |-> adj,
                 d |-> 0, ret |-> NoneVal, done |-> FALSE]
    /\ pc = "idle"
    /\ fy_month_str = <<>>
    /\ fy_adjust = "Same Year"
    /\ latest_only = FALSE
    /\ fetch_mode = "10K_10Q"
    /\ all_filings_raw = <<>>
    /\ resolver_result = <<>>
    /\ user_fy_end_month_int = 0
    /\ scan_pos = 0
    /\ potential_exhibits_with_filing = <<>>
    /\ unique_verified_exhibits = <<>>
    /\ processed_periods = {}
    /\ tasks_to_submit = <<>>
    /\ outcome = "idle"
    /\ IdleFeed /\ IdleResults /\ IdleCalls

run_vars == <<pc, fy_month_str, fy_adjust, latest_only, fetch_mode,
              user_fy_end_month_int, all_filings_raw, resolver_result, scan_pos,
              potential_exhibits_with_filing, unique_verified_exhibits,
              processed_periods, tasks_to_submit, outcome, rest_vars>>

\* one call of get_period_label_from_report_date
CallReportDate ==
    /\ cl.fn = "report"
    /\ ~cl.done
    /\ cl' = [cl EXCEPT
                 !.ret = Some(get_period_label_from_report_date(
                                  cl.form, cl.date, cl.fyem, cl.adjust)),
                 !.done = TRUE]
    /\ UNCHANGED run_vars

\* variant of CallDistance: the distance of an earlier call lingers and the
\* call returns None
CallDistance_mut ==
    /\ cl.fn = "distance"
    /\ ~cl.done
    /\ cl' = [cl EXCEPT
                 !.ret = IF cl.d = 0
                         THEN get_8k_period_label_by_distance(cl.date, cl.fyem, cl.adjust)
                         ELSE NoneVal,
                 !.d = IF IntArg(cl.fyem).ok
                       THEN Distance_8k(cl.date.month, IntArg(cl.fyem).val)
                       ELSE cl.d,
                 !.done = TRUE]
    /\ UNCHANGED run_vars

\* one call of get_8k_period_label_by_distance; d is its local variable
CallDistance ==
    /\ cl.fn = "distance"
    /\ ~cl.done
    /\ cl' = [cl EXCEPT
                 !.ret = get_8k_period_label_by_distance(cl.date, cl.fyem, cl.adjust),
                 !.d = IF IntArg(cl.fyem).ok
                       THEN Distance_8k(cl.date.month, IntArg(cl.fyem).val)
                       ELSE 0,
                 !.done = TRUE]
    /\ UNCHANGED run_vars

NextClassify == CallReportDate \/ CallDistance

SpecClassify == InitClassify /\ [][NextClassify]_vars

-----------------------------------------------------------------------------
(* The classifiers called repeatedly                                        *)

\* dates of the repeated calls: mid-month, in a year of either century
RepeatDates == {dt \in ClassifierDates : dt.day = 15 /\ dt.year \in {MinYear + 1, MaxYear - 2}}

\* the arguments of the call in cl
ArgsOf(c) == [fn |-> c.fn, form |-> c.form, date |-> c.date, fyem |-> c.fyem,
              adjust |-> c.adjust]

\* other arguments for a call made between two calls with the same ones
OtherArgs(c) ==
    {[ArgsOf(c) EXCEPT !.adjust = adj] : adj \in FyAdjusts \ {c.adjust}}
        \cup {[ArgsOf(c) EXCEPT !.fyem = IntMonth(6)]}
        \cup {[ArgsOf(c) EXCEPT !.fn = "distance", !.form = <<>>]}
        \cup {[ArgsOf(c) EXCEPT !.fn = "report", !.form = f] : f \in {Form10K, Form10Q}}

\* a process that calls the classifiers one call after the other; prev is the
\* sequence of the calls that have returned, with what they returned
InitRepeat ==
    /\ \E fn \in {"report", "distance"} :
       \E f \in (IF fn = "report" THEN ClassifierForms ELSE {<<>>}) :
       \E dt \in RepeatDates, fm \in ClassifierMonths, adj \in FyAdjusts :
           cl = [fn |-> fn, form |-> f, date |-> dt, fyem |-> fm, adjust |-> adj,
                 d |-> 0, ret |-> NoneVal, done |-> FALSE, prev |-> <<>>]
    /\ pc = "idle"
    /\ fy_month_str = <<>>
    /\ fy_adjust = "Same Year"
    /\ latest_only = FALSE
    /\ fetch_mode = "10K_10Q"
    /\ all_filings_raw = <<>>
    /\ resolver_result = <<>>
    /\ user_fy_end_month_int = 0
    /\ scan_pos = 0
    /\ potential_exhibits_with_filing = <<>>
    /\ unique_verified_exhibits = <<>>
    /\ processed_periods = {}
    /\ tasks_to_submit = <<>>
    /\ outcome = "idle"
    /\ IdleFeed /\ IdleResults /\ IdleCalls

\* the call in cl has returned and the next call is made: with the same
\* arguments, or with others
CallAgain ==
    /\ cl.done
    /\ Len(cl.prev) < MaxCalls - 1
    /\ \E a \in {ArgsOf(cl)} \cup OtherArgs(cl) :
           cl' = [fn |-> a.fn, form |-> a.form, date |-> a.date, fyem |-> a.fyem,
                  adjust |-> a.adjust, d |-> cl.d, ret |-> NoneVal, done |-> FALSE,
                  prev |-> Append(cl.prev, [args |-> ArgsOf(cl), ret |-> cl.ret])]
    /\ UNCHANGED run_vars

NextRepeat == CallReportDate \/ CallDistance \/ CallAgain

SpecRepeat == InitRepeat /\ [][NextRepeat]_vars

-----------------------------------------------------------------------------
(* process_filing: reading the feed                                         *)

\* s.replace('-', '')
RECURSIVE RemoveDashes(_)
RemoveDashes(s) ==
    IF s = <<>> THEN <<>>
    ELSE (IF Head(s) = "-" THEN <<>> ELSE <<Head(s)>>) \o RemoveDashes(Tail(s))

AllDigits(s) == \A k \in 1..Len(s) : IsDigit(s[k])

DaysInMonth(y, m) ==
    IF m = 2
    THEN (IF (y % 4 = 0 /\ y % 100 # 0) \/ y % 400 = 0 THEN 29 ELSE 28)
    ELSE IF m \in {4, 6, 9, 11} THEN 30 ELSE 31

\* datetime.strptime(s, "%Y-%m-%d").date(): four digits, one or two, one or
\* two, a date of the calendar; ok = FALSE stands for ValueError
ParseDate(s) ==
    LET ys == BeforeFirst(s, <<"-">>)
        rest == SubSeq(s, Len(ys) + 2, Len(s))
        ms == BeforeFirst(rest, <<"-">>)
        ds == SubSeq(rest, Len(ms) + 2, Len(rest))
        y == DigitsValue(ys)
        m == DigitsValue(ms)
        d == DigitsValue(ds)
    IN  IF /\ Len(ys) = 4 /\ Len(ms) \in 1..2 /\ Len(ds) \in 1..2
           /\ AllDigits(ys) /\ AllDigits(ms) /\ AllDigits(ds)
           /\ y >= 1 /\ m \in 1..12 /\ d \in 1..DaysInMonth(y, m)
        THEN [ok |-> TRUE, val |-> Date(y, m, d)]
        ELSE [ok |-> FALSE, val |-> Date(0, 0, 0)]

\* the arrays line 1141 compares; 'items' is not among them
CheckedArrays ==
    {"accessionNumber", "form", "filingDate", "primaryDocument", "reportDate",
     "acceptanceDateTime"}

\* variant of ConsistentLengths: the item codes take part in the comparison
ConsistentLengths_mut(source_data) ==
    \A key \in CheckedArrays \cup {"items"} :
        Len(source_data[key]) = Len(source_data.accessionNumber)

\* list_len == len(forms) == len(filing_dates_str_list) == ... (line 1141)
ConsistentLengths(source_data) ==
    \A key \in CheckedArrays :
        Len(source_data[key]) = Len(source_data.accessionNumber)

\* items_list.extend([''] * (list_len - len(items_list))); '' splits into ['']
PaddedItems(source_data) ==
    LET list_len == Len(source_data.accessionNumber) IN
    IF Len(source_data.items) < list_len
    THEN source_data.items \o [k \in 1..(list_len - Len(source_data.items)) |-> <<"">>]
    ELSE source_data.items

\* the dates of record i parse
DatesParse(source_data, i) ==
    /\ ParseDate(source_data.filingDate[i]).ok
    /\ source_data.reportDate[i] # <<>> => ParseDate(source_data.reportDate[i]).ok

\* the record appended for index i of a fragment
RecordAt(source_data, i) ==
    [accession_clean |-> RemoveDashes(source_data.accessionNumber[i]),
     form |-> source_data.form[i],
     filing_date |-> ParseDate(source_data.filingDate[i]).val,
     report_date |-> IF source_data.reportDate[i] # <<>>
                     THEN Some(ParseDate(source_data.reportDate[i]).val)
                     ELSE NoneVal,
     primary_doc |-> source_data.primaryDocument[i],
     items |-> PaddedItems(source_data)[i]]

RECURSIVE RecordsOf_mut(_, _)
\* variant of RecordsOf: the first record whose dates do not parse ends the
\* fragment
RecordsOf_mut(source_data, i) ==
    IF i > Len(source_data.accessionNumber) THEN <<>>
    ELSE IF DatesParse(source_data, i)
         THEN <<RecordAt(source_data, i)>> \o RecordsOf_mut(source_data, i + 1)
         ELSE <<>>

RECURSIVE RecordsOf(_, _)
\* "for i in range(list_len)" from index i on: a record whose dates do not
\* parse is skipped
RecordsOf(source_data, i) ==
    IF i > Len(source_data.accessionNumber) THEN <<>>
    ELSE (IF DatesParse(source_data, i) THEN <<RecordAt(source_data, i)>> ELSE <<>>)
             \o RecordsOf(source_data, i + 1)

RECURSIVE CollectRecords(_)
\* "for source_data in all_filing_sources": a fragment with inconsistent
\* lengths is skipped, the others add their records
CollectRecords(sources) ==
    IF sources = <<>> THEN <<>>
    ELSE (IF ConsistentLengths(Head(sources)) THEN RecordsOf(Head(sources), 1) ELSE <<>>)
             \o CollectRecords(Tail(sources))

RECURSIVE CollectWarnings(_)
\* the warnings the collection loop logs, in order
CollectWarnings(sources) ==
    IF sources = <<>> THEN <<>>
    ELSE (IF ConsistentLengths(Head(sources))
          THEN [k \in 1..(Len(Head(sources).accessionNumber)
                            - Len(RecordsOf(Head(sources), 1))) |->
                    "Warn: Skipping record, date error"]
          ELSE <<"WARN: Skipping a block of filing data due to inconsistent lengths.">>)
             \o CollectWarnings(Tail(sources))

\* what a feed of the server can look like

\* f"{y}-{m:02d}-{d:02d}", the way EDGAR writes dates
DateStr(y, m, d) == DecStr(y) \o <<"-">> \o Fmt02d(m) \o <<"-">> \o Fmt02d(d)

Raw(acc, form, fd, rd, doc, items) ==
    [accessionNumber |-> acc, form |-> form, filingDate |-> fd, reportDate |-> rd,
     primaryDocument |-> doc, items |-> items, acceptanceDateTime |-> "t"]

RawAnnual ==
    Raw(<<"1", "-", "1">>, Form10K, DateStr(2018, 2, 20), DateStr(2017, 12, 31),
        "doc.htm", <<"">>)

\* the accession of RawAnnual, written without a dash, on an amendment
RawAmended ==
    Raw(<<"1", "1">>, Form10KA, DateStr(2018, 5, 5), DateStr(2017, 12, 31),
        "doc.htm", <<"">>)

RawQuarter ==
    Raw(<<"2", "-", "2">>, Form10Q, DateStr(2018, 5, 5), DateStr(2018, 3, 31),
        "doc.htm", <<"">>)

RawRelease ==
    Raw(<<"3", "-", "3">>, Form8K, DateStr(2019, 2, 10), <<>>,
        "doc.htm", <<"2.02", "9.01">>)

\* a filing date that is no date
RawBadDate ==
    Raw(<<"4", "-", "4">>, Form10K, <<"2", "0", "1", "8", "-", "1", "3", "-", "0", "1">>,
        DateStr(2017, 12, 31), "doc.htm", <<"">>)

\* an 8-K whose entry in the 'items' array is null
RawNullItems ==
    Raw(<<"5", "-", "5">>, Form8K, DateStr(2019, 5, 5), <<>>, "doc.htm", NullItems)

\* an amendment filed on the day of RawAnnual, for the same period
RawSameDay ==
    Raw(<<"6", "-", "6">>, Form10KA, DateStr(2018, 2, 20), DateStr(2017, 12, 31),
        "doc.htm", <<"">>)

ArrayKeys == CheckedArrays \cup {"items"}

\* the parallel arrays of a list of records
Fragment(recs) == [key \in ArrayKeys |-> [k \in 1..Len(recs) |-> recs[k][key]]]

\* a fragment with the last entry of one array missing
Shorten(fragment, key) ==
    [fragment EXCEPT ![key] = SubSeq(@, 1, Len(@) - 1)]

WellFormedFragments ==
    {Fragment(<<RawAnnual, RawQuarter>>),
     Fragment(<<RawAmended, RawRelease>>),
     Fragment(<<RawBadDate, RawRelease>>),
     Fragment(<<RawRelease, RawNullItems>>)}

\* a fragment in which one array is shorter than the others
DamagedFragments ==
    {Shorten(Fragment(<<RawAnnual, RawQuarter>>), key) : key \in ArrayKeys}

\* the answer to the request for a historical file
FileAnswers ==
    {[ok |-> FALSE, data |-> Fragment(<<>>)]}
        \cup {[ok |-> TRUE, data |-> f] : f \in WellFormedFragments \cup DamagedFragments}

\* the inline 'recent' fragment: absent, or one of three; the last is out of
\* filing-date order, has a record whose date does not parse and repeats an
\* accession
RecentAnswers ==
    {NoneVal, Some(Fragment(<<RawAnnual, RawQuarter>>)), Some(Fragment(<<RawRelease>>)),
     Some(Fragment(<<RawQuarter, RawBadDate, RawAnnual, RawAmended>>))}

\* the submissions document: unreachable or unparseable, or the list of the
\* historical files and the inline 'recent' fragment
Feeds ==
    {[ok |-> FALSE, files |-> <<>>, recent |-> NoneVal]}
        \cup {[ok |-> TRUE, files |-> fl, recent |-> r] :
                 fl \in UNION {[1..n -> FileAnswers] : n \in 0..MaxFragments},
                 r \in RecentAnswers}

\* file_info['name'] of the k-th historical file
FileName(k) == <<"f">> \o DecStr(k)

CleanAccessions ==
    {RemoveDashes(r.accessionNumber) :
        r \in {RawAnnual, RawAmended, RawQuarter, RawRelease, RawBadDate, RawNullItems,
               RawSameDay}}

-----------------------------------------------------------------------------
(* A request from the fetch of the submissions document to the answer       *)

\* the name of the submissions document in the set of requested URLs
SubmissionsName == <<"C", "I", "K">>

\* resolver answers used with the feeds: nothing resolves, everything resolves
\* to one exhibit, every filing resolves to an exhibit of its own
FeedResolverChoices ==
    {[a \in CleanAccessions |-> NoneVal],
     [a \in CleanAccessions |-> Some([url |-> "ex99-1.htm"])],
     [a \in CleanAccessions |->
         Some([url |-> IF a = <<"3", "3">> THEN "ex99-1.htm" ELSE "ex99-2.htm"])]}

\* process_filing after line 1072, the month of the request parsed
InitFeed ==
    /\ cl = IdleCall
    /\ pc = "fetch_submissions"
    /\ fy_month_str = <<"1", "2">>
    /\ user_fy_end_month_int = 12
    /\ fy_adjust = "Same Year"
    /\ latest_only \in BOOLEAN
    /\ fetch_mode \in FetchModes
    /\ submissions \in Feeds
    /\ resolver_result \in
           (IF fetch_mode = "8K_Earnings" THEN FeedResolverChoices
            ELSE {[a \in CleanAccessions |-> NoneVal]})
    /\ all_filings_raw = <<>>
    /\ scan_pos = 0
    /\ potential_exhibits_with_filing = <<>>
    /\ unique_verified_exhibits = <<>>
    /\ processed_periods = {}
    /\ tasks_to_submit = <<>>
    /\ outcome = "running"
    /\ pending = {}
    /\ all_filing_sources = <<>>
    /\ requested = {}
    /\ IdleResults /\ IdleCalls

scan_vars == <<scan_pos, potential_exhibits_with_filing, unique_verified_exhibits,
               processed_periods, tasks_to_submit>>

\* variant of FetchSubmissions: a failed fetch is logged and the run goes on
FetchSubmissions_mut ==
    /\ pc = "fetch_submissions"
    /\ requested' = requested \cup {SubmissionsName}
    /\ pc' = "historical"
    /\ log_lines' = IF submissions.ok THEN log_lines
                    ELSE Append(log_lines,
                                "ERROR: Failed to retrieve/process submission data")
    /\ UNCHANGED <<cl, request_vars, user_fy_end_month_int, all_filings_raw, scan_vars,
                   outcome, submissions, pending, all_filing_sources, result_vars,
                   call_vars>>

\* r = robust_get(submissions_url, retries=3, delay=0.5); submissions = r.json():
\* on any exception the error is logged and process_filing returns its empty
\* buckets (lines 1077-1085)
FetchSubmissions ==
    /\ pc = "fetch_submissions"
    /\ requested' = requested \cup {SubmissionsName}
    /\ IF submissions.ok
       THEN /\ pc' = "historical"
            /\ UNCHANGED <<log_lines, outcome>>
       ELSE /\ pc' = "done"
            /\ outcome' = "feed_error"
            /\ log_lines' = Append(log_lines,
                                   "ERROR: Failed to retrieve/process submission data")
    /\ UNCHANGED <<cl, request_vars, user_fy_end_month_int, all_filings_raw, scan_vars,
                   submissions, pending, all_filing_sources, result_vars, call_vars>>

\* "if 'files' in filings and filings.get('files')": the progress record is
\* set and one robust_get per historical file is submitted to the pool
SubmitHistorical ==
    /\ pc = "historical"
    /\ IF submissions.files # <<>>
       THEN /\ progress_data' = [text |-> "Fetching historical data...",
                                 total |-> Len(submissions.files), current |-> 0]
            /\ pending' = 1..Len(submissions.files)
            /\ requested' = requested \cup
                                {FileName(k) : k \in 1..Len(submissions.files)}
       ELSE UNCHANGED <<progress_data, pending, requested>>
    /\ pc' = "as_completed"
    /\ UNCHANGED <<cl, request_vars, user_fy_end_month_int, all_filings_raw, scan_vars,
                   outcome, submissions, all_filing_sources, pdf_files, report_items,
                   response, log_lines, call_vars>>

\* one iteration of "for i, future in enumerate(as_completed(future_to_url))":
\* the fragment of a fetch that succeeded is appended, a failure is logged
CompleteHistorical ==
    /\ pc = "as_completed"
    /\ \E k \in pending :
           /\ pending' = pending \ {k}
           /\ IF submissions.files[k].ok
              THEN /\ all_filing_sources' =
                          Append(all_filing_sources, submissions.files[k].data)
                   /\ UNCHANGED log_lines
              ELSE /\ log_lines' = Append(log_lines,
                                          "Warn: Failed to fetch historical file")
                   /\ UNCHANGED all_filing_sources
    /\ progress_data' =
           [progress_data EXCEPT
               !.current = Len(submissions.files) - Cardinality(pending) + 1]
    /\ UNCHANGED <<cl, request_vars, user_fy_end_month_int, all_filings_raw, scan_vars,
                   outcome, pc, submissions, requested, pdf_files, report_items,
                   response, call_vars>>

\* variant of AddRecent: 'recent' is added only beside historical fragments
AddRecent_mut ==
    /\ pc = "as_completed"
    /\ pending = {}
    /\ all_filing_sources' =
           IF submissions.recent.isNone \/ all_filing_sources = <<>> THEN all_filing_sources
           ELSE Append(all_filing_sources, submissions.recent.val)
    /\ IF all_filing_sources' = <<>>
       THEN /\ pc' = "done"
            /\ outcome' = "no_sources"
            /\ log_lines' = Append(log_lines, "No filing data sources found")
       ELSE /\ pc' = "collect"
            /\ UNCHANGED <<log_lines, outcome>>
    /\ UNCHANGED <<cl, request_vars, user_fy_end_month_int, all_filings_raw, scan_vars,
                   submissions, pending, requested, result_vars, call_vars>>

\* the 'recent' fragment is added; without any source process_filing returns
AddRecent ==
    /\ pc = "as_completed"
    /\ pending = {}
    /\ all_filing_sources' =
           IF submissions.recent.isNone THEN all_filing_sources
           ELSE Append(all_filing_sources, submissions.recent.val)
    /\ IF all_filing_sources' = <<>>
       THEN /\ pc' = "done"
            /\ outcome' = "no_sources"
            /\ log_lines' = Append(log_lines, "No filing data sources found")
       ELSE /\ pc' = "collect"
            /\ UNCHANGED <<log_lines, outcome>>
    /\ UNCHANGED <<cl, request_vars, user_fy_end_month_int, all_filings_raw, scan_vars,
                   submissions, pending, requested, result_vars, call_vars>>

\* "for source_data in all_filing_sources": the records enter all_filings_raw
Collect ==
    /\ pc = "collect"
    /\ all_filings_raw' = CollectRecords(all_filing_sources)
    /\ log_lines' = log_lines \o CollectWarnings(all_filing_sources)
    /\ progress_data' = [progress_data EXCEPT !.text = "Aggregating all filing data..."]
    /\ pc' = "aggregate"
    /\ UNCHANGED <<cl, request_vars, user_fy_end_month_int, scan_vars, outcome,
                   feed_vars, pdf_files, report_items, response, call_vars>>

\* variant of Respond: the answer carries the message and no log
Respond_mut ==
    /\ pc = "done"
    /\ outcome \in {"feed_error", "no_sources", "no_filings", "main_error", "finished"}
    /\ LET zip_ok == \E k \in DOMAIN pdf_files : pdf_files[k] # <<>>
           report_ok == report_items # <<>>
       IN  response' =
               Some(IF zip_ok \/ report_ok
                    THEN [status |-> 200, success |-> TRUE,
                          message |-> "Processing complete.", log |-> <<>>]
                    ELSE [status |-> 200, success |-> FALSE,
                          message |-> "No valid filings found or processed.",
                          log |-> <<>>])
    /\ pc' = "responded"
    /\ UNCHANGED <<cl, request_vars, user_fy_end_month_int, all_filings_raw, scan_vars,
                   outcome, feed_vars, pdf_files, report_items, progress_data,
                   log_lines, call_vars>>

\* fetch_filing after process_filing returned: a ZIP when a bucket holds a
\* PDF, a CSV when there are report items, and the answer with the log
Respond ==
    /\ pc = "done"
    /\ outcome \in {"feed_error", "no_sources", "no_filings", "main_error", "finished"}
    /\ LET zip_ok == \E k \in DOMAIN pdf_files : pdf_files[k] # <<>>
           report_ok == report_items # <<>>
       IN  response' =
               Some(IF zip_ok \/ report_ok
                    THEN [status |-> 200, success |-> TRUE,
                          message |-> "Processing complete.", log |-> log_lines]
                    ELSE [status |-> 200, success |-> FALSE,
                          message |-> "No valid filings found or processed.",
                          log |-> log_lines])
    /\ pc' = "responded"
    /\ UNCHANGED <<cl, request_vars, user_fy_end_month_int, all_filings_raw, scan_vars,
                   outcome, feed_vars, pdf_files, report_items, progress_data,
                   log_lines, call_vars>>

NextFeed ==
    \/ FetchSubmissions
    \/ SubmitHistorical
    \/ CompleteHistorical
    \/ AddRecent
    \/ Collect
    \/ Aggregate
    \/ Scan10K
    \/ EndScan10K
    \/ Gather8K
    \/ Dedup8K
    \/ Label8K
    \/ EndLabel8K
    \/ Execute
    \/ Respond

SpecFeed == InitFeed /\ [][NextFeed]_vars

-----------------------------------------------------------------------------
(* The same request made twice: the historical fragments may complete in    *)
(* another order the second time                                            *)

\* the feeds of these runs: up to MaxFragments historical files, each failing
\* or delivering one of three fragments, and a 'recent' block or none
OrderFeeds ==
    {[ok |-> TRUE, files |-> fl, recent |-> r] :
        fl \in UNION {[1..n ->
                          {[ok |-> FALSE, data |-> Fragment(<<>>)]}
                              \cup {[ok |-> TRUE, data |-> f] :
                                       f \in {Fragment(<<RawAnnual, RawQuarter>>),
                                              Fragment(<<RawSameDay>>),
                                              Fragment(<<RawAmended, RawRelease>>)}}] :
                      n \in 0..MaxFragments},
        r \in {NoneVal, Some(Fragment(<<RawRelease>>))}}

\* which accession carries which label in the task list
LabelledAccessions ==
    {[accession |-> tasks_to_submit[i].accession,
      label |-> tasks_to_submit[i].assigned_period_label] :
        i \in 1..Len(tasks_to_submit)}

InitOrders ==
    /\ cl = IdleCall
    /\ pc = "fetch_submissions"
    /\ fy_month_str = <<"1", "2">>
    /\ user_fy_end_month_int = 12
    /\ fy_adjust = "Same Year"
    /\ latest_only \in BOOLEAN
    /\ fetch_mode \in FetchModes
    /\ submissions \in OrderFeeds
    /\ resolver_result =
           [a \in CleanAccessions |->
               IF fetch_mode = "8K_Earnings" THEN Some([url |-> "ex99-1.htm"])
               ELSE NoneVal]
    /\ all_filings_raw = <<>>
    /\ scan_pos = 0
    /\ potential_exhibits_with_filing = <<>>
    /\ unique_verified_exhibits = <<>>
    /\ processed_periods = {}
    /\ tasks_to_submit = <<>>
    /\ outcome = "running"
    /\ pending = {}
    /\ all_filing_sources = <<>>
    /\ requested = {}
    /\ IdleResults
    /\ futures = <<>>
    /\ rg = <<>>
    /\ rs = <<>>
    /\ th = [run |-> 1, first |-> {}]

\* the first request is over; the same request is made again and
\* process_filing starts from its first line with the same feed
RequestAgain ==
    /\ pc = "done"
    /\ th.run = 1
    /\ th' = [run |-> 2, first |-> LabelledAccessions]
    /\ pc' = "fetch_submissions"
    /\ all_filings_raw' = <<>>
    /\ scan_pos' = 0
    /\ potential_exhibits_with_filing' = <<>>
    /\ unique_verified_exhibits' = <<>>
    /\ processed_periods' = {}
    /\ tasks_to_submit' = <<>>
    /\ outcome' = "running"
    /\ pending' = {}
    /\ all_filing_sources' = <<>>
    /\ requested' = {}
    /\ log_lines' = <<>>
    /\ UNCHANGED <<cl, request_vars, user_fy_end_month_int, submissions, pdf_files,
                   report_items, progress_data, response, futures, rg, rs>>

NextOrders ==
    \/ FetchSubmissions
    \/ SubmitHistorical
    \/ CompleteHistorical
    \/ AddRecent
    \/ Collect
    \/ Aggregate
    \/ Scan10K
    \/ EndScan10K
    \/ Gather8K
    \/ Dedup8K
    \/ Label8K
    \/ EndLabel8K
    \/ Execute
    \/ RequestAgain

SpecOrders == InitOrders /\ [][NextOrders]_vars

-----------------------------------------------------------------------------
(* robust_get called on its own                                             *)

\* no request under way: the state of process_filing at rest
NoRequest ==
    /\ cl = IdleCall
    /\ pc = "idle"
    /\ fy_month_str = <<>>
    /\ fy_adjust = "Same Year"
    /\ latest_only = FALSE
    /\ fetch_mode = "10K_10Q"
    /\ all_filings_raw = <<>>
    /\ resolver_result = <<>>
    /\ user_fy_end_month_int = 0
    /\ scan_pos = 0
    /\ potential_exhibits_with_filing = <<>>
    /\ unique_verified_exhibits = <<>>
    /\ processed_periods = {}
    /\ tasks_to_submit = <<>>
    /\ outcome = "idle"

\* time.sleep(0.1), in tenths of a second
PolitenessDelay == 1

\* backoff=2
DefaultBackoff == 2

\* the delay arguments of the call sites, in tenths of a second: 0.5 and 1
DelayArgs == {5, 10}

Statuses == {200, 404, 429, 500, 503}

\* what session.get can come back with: a response with a status, or an
\* exception of the transport (connection error, timeout)
Answers ==
    {[transport |-> TRUE, status |-> 0]}
        \cup {[transport |-> FALSE, status |-> st] : st \in Statuses}

\* resp.raise_for_status() raises HTTPError for 4xx and 5xx
RaisesHTTPError(answer) == ~answer.transport /\ answer.status \in 400..599

\* variant of ShouldRetry: every HTTP error is retried while attempts are left
ShouldRetry_mut(answer, attempt, retries) == attempt < retries - 1

\* the conditions of lines 786 and 797 under which the loop sleeps and goes on
ShouldRetry(answer, attempt, retries) ==
    IF RaisesHTTPError(answer)
    THEN answer.status \in {503, 429} /\ attempt < retries - 1
    ELSE attempt < retries - 1

InitGet ==
    /\ NoRequest
    /\ IdleFeed /\ IdleResults
    /\ futures = <<>>
    /\ rs = <<>>
    /\ th = IdleThreads
    /\ \E n \in 0..MaxRetries, dl \in DelayArgs :
           rg = [pc |-> "start", retries |-> n, delay |-> dl, backoff |-> DefaultBackoff,
                 attempt |-> 0, current_delay |-> 0, answers |-> <<>>, slept |-> <<>>,
                 events |-> <<>>,
                 error |-> NoneVal, resp |-> NoneVal]

get_rest == <<cl, pc, request_vars, user_fy_end_month_int, all_filings_raw, scan_vars,
              outcome, feed_vars, result_vars, log_lines, futures, rs, th>>

\* what the call does to the outside, in order: time.sleep(secs) and
\* session.get(url, ...)
Sleep(secs) == [kind |-> "sleep", secs |-> secs]

SessionGet == [kind |-> "get", secs |-> 0]

\* time.sleep(0.1); current_delay = delay
GetStart ==
    /\ rg.pc = "start"
    /\ rg' = [rg EXCEPT !.pc = "loop", !.slept = <<PolitenessDelay>>,
                        !.events = <<Sleep(PolitenessDelay)>>,
                        !.current_delay = rg.delay]
    /\ UNCHANGED get_rest

\* variant of GetAttempt: the wait grows by the backoff instead of being
\* multiplied by it
GetAttempt_mut ==
    /\ rg.pc = "loop"
    /\ IF rg.attempt >= rg.retries
       THEN rg' = [rg EXCEPT !.pc = "raised",
                             !.error = Some([transport |-> TRUE, status |-> 0])]
       ELSE \E answer \in Answers :
                IF ~answer.transport /\ ~RaisesHTTPError(answer)
                THEN rg' = [rg EXCEPT !.pc = "returned",
                                      !.answers = Append(@, answer),
                                      !.events = Append(@, SessionGet),
                                      !.resp = Some(answer)]
                ELSE IF ShouldRetry(answer, rg.attempt, rg.retries)
                     THEN rg' = [rg EXCEPT !.answers = Append(@, answer),
                                           !.slept = Append(@, rg.current_delay),
                                           !.events = @ \o <<SessionGet, Sleep(rg.current_delay)>>,
                                           !.current_delay = @ + rg.backoff,
                                           !.attempt = @ + 1]
                     ELSE rg' = [rg EXCEPT !.pc = "raised",
                                           !.answers = Append(@, answer),
                                           !.events = Append(@, SessionGet),
                                           !.error = Some(answer)]
    /\ UNCHANGED get_rest

\* one iteration of "for attempt in range(retries)", or the raise behind the
\* loop when the range is used up
GetAttempt ==
    /\ rg.pc = "loop"
    /\ IF rg.attempt >= rg.retries
       THEN rg' = [rg EXCEPT !.pc = "raised",
                             !.error = Some([transport |-> TRUE, status |-> 0])]
       ELSE \E answer \in Answers :
                IF ~answer.transport /\ ~RaisesHTTPError(answer)
                THEN rg' = [rg EXCEPT !.pc = "returned",
                                      !.answers = Append(@, answer),
                                      !.events = Append(@, SessionGet),
                                      !.resp = Some(answer)]
                ELSE IF ShouldRetry(answer, rg.attempt, rg.retries)
                     THEN rg' = [rg EXCEPT !.answers = Append(@, answer),
                                           !.slept = Append(@, rg.current_delay),
                                           !.events = @ \o <<SessionGet, Sleep(rg.current_delay)>>,
                                           !.current_delay = @ * rg.backoff,
                                           !.attempt = @ + 1]
                     ELSE rg' = [rg EXCEPT !.pc = "raised",
                                           !.answers = Append(@, answer),
                                           !.events = Append(@, SessionGet),
                                           !.error = Some(answer)]
    /\ UNCHANGED get_rest

NextGet == GetStart \/ GetAttempt

SpecGet == InitGet /\ [][NextGet]_vars

-----------------------------------------------------------------------------
(* get_earnings_release_exhibit_info: text matching                         *)

UpperLetters ==
    <<"A", "B", "C", "D", "E", "F", "G", "H", "I", "J", "K", "L", "M", "N",
      "O", "P", "Q", "R", "S", "T", "U", "V", "W", "X", "Y", "Z">>

LowerLetters ==
    <<"a", "b", "c", "d", "e", "f", "g", "h", "i", "j", "k", "l", "m", "n",
      "o", "p", "q", "r", "s", "t", "u", "v", "w", "x", "y", "z">>

IsUpper(c) == \E k \in 1..26 : UpperLetters[k] = c

IsLetter(c) == IsUpper(c) \/ \E k \in 1..26 : LowerLetters[k] = c

\* str.lower()
Lower(s) ==
    [k \in 1..Len(s) |->
        IF IsUpper(s[k]) THEN LowerLetters[CHOOSE j \in 1..26 : UpperLetters[j] = s[k]]
        ELSE s[k]]

\* \w
IsWordChar(c) == IsLetter(c) \/ IsDigit(c) \/ c = "_"

\* [\s\-_.]
IsSep(c) == c \in {" ", "-", "_", "."}

RECURSIVE SepRun(_, _)
\* the number of characters [\s\-_.]* takes from position k on; what follows
\* in every pattern is a digit, so the run is taken whole
SepRun(s, k) ==
    IF k <= Len(s) /\ IsSep(s[k]) THEN 1 + SepRun(s, k + 1) ELSE 0

\* \b between position k - 1 and position k of s
Boundary(s, k) ==
    (k - 1 >= 1 /\ IsWordChar(s[k - 1])) # (k <= Len(s) /\ IsWordChar(s[k]))

\* s[k..] starts with p
At(s, k, p) == k >= 1 /\ k + Len(p) - 1 <= Len(s) /\ SubSeq(s, k, k + Len(p) - 1) = p

\* re.search(r'ex[\s\-_.]*99[\s\-_.]*' + tail, s)
MatchesNumbered(s, tail) ==
    \E i \in 1..Len(s) :
        LET p99 == i + 2 + SepRun(s, i + 2)
            pt == p99 + 2 + SepRun(s, p99 + 2)
        IN  At(s, i, <<"e", "x">>) /\ At(s, p99, <<"9", "9">>) /\ At(s, pt, tail)

\* re.search(r'ex[\s\-_.]*\b99\b(?!\.\d)', s)
MatchesBare(s) ==
    \E i \in 1..Len(s) :
        LET p99 == i + 2 + SepRun(s, i + 2) IN
        /\ At(s, i, <<"e", "x">>) /\ At(s, p99, <<"9", "9">>)
        /\ Boundary(s, p99) /\ Boundary(s, p99 + 2)
        /\ ~(At(s, p99 + 2, <<".">>) /\ p99 + 3 <= Len(s) /\ IsDigit(s[p99 + 3]))

TypeEX991 == <<"E", "X", "-", "9", "9", ".", "1">>
TypeEX992 == <<"E", "X", "-", "9", "9", ".", "2">>
TypeEX99 == <<"E", "X", "-", "9", "9">>

\* exhibit_patterns: pattern, exhibit type, priority
exhibit_patterns ==
    <<[tail |-> <<"1">>, bare |-> FALSE, type |-> TypeEX991, priority |-> 1],
      [tail |-> <<"0", "1">>, bare |-> FALSE, type |-> TypeEX991, priority |-> 1],
      [tail |-> <<"2">>, bare |-> FALSE, type |-> TypeEX992, priority |-> 2],
      [tail |-> <<"0", "2">>, bare |-> FALSE, type |-> TypeEX992, priority |-> 2],
      [tail |-> <<>>, bare |-> TRUE, type |-> TypeEX99, priority |-> 3]>>

\* re.search(pattern, s) for the k-th exhibit pattern
MatchesPattern(k, s) ==
    IF exhibit_patterns[k].bare THEN MatchesBare(s)
    ELSE MatchesNumbered(s, exhibit_patterns[k].tail)

\* some exhibit pattern matches s
ExhibitMatch(s) == \E k \in 1..Len(exhibit_patterns) : MatchesPattern(k, s)

\* "for pattern, ex_type, prio in exhibit_patterns: if re.search(...): break"
FirstPattern(s) ==
    exhibit_patterns[CHOOSE k \in 1..Len(exhibit_patterns) :
                         /\ MatchesPattern(k, s)
                         /\ \A j \in 1..(k - 1) : ~MatchesPattern(j, s)]

\* keyword_patterns, \s written as a blank
keyword_patterns ==
    {<<"p", "r", "e", "s", "s", " ", "r", "e", "l", "e", "a", "s", "e">>,
     <<"e", "a", "r", "n", "i", "n", "g", "s">>,
     <<"f", "i", "n", "a", "n", "c", "i", "a", "l", " ", "r", "e", "s", "u",
       "l", "t", "s">>,
     <<"n", "e", "w", "s", " ", "r", "e", "l", "e", "a", "s", "e">>}

\* any(re.search(kw, s) for kw in keyword_patterns)
KeywordMatch(s) == \E kw \in keyword_patterns : Contains(s, kw)

\* [a-zA-Z0-9\-_]
IsNameChar(c) == IsLetter(c) \/ IsDigit(c) \/ c \in {"-", "_"}

RECURSIVE NameRun(_, _)
\* the number of characters [a-zA-Z0-9\-_]+ takes from position k on; what
\* follows is a dot, so the run is taken whole
NameRun(s, k) ==
    IF k <= Len(s) /\ IsNameChar(s[k]) THEN 1 + NameRun(s, k + 1) ELSE 0

\* the end of a match of \b[a-zA-Z0-9\-_]+\.htm(l)?\b that starts at i, 0
\* without one
FilenameEnd(s, i) ==
    LET dot == i + NameRun(s, i)
        m == dot + 3
    IN  IF Boundary(s, i) /\ NameRun(s, i) >= 1
           /\ At(s, dot, <<".", "h", "t", "m">>)
        THEN (IF At(s, m + 1, <<"l">>) /\ Boundary(s, m + 2) THEN m + 1
              ELSE IF Boundary(s, m + 1) THEN m
              ELSE 0)
        ELSE 0

\* filename_pattern.search(s): the leftmost match, None without one
FirstFilename(s) ==
    IF \E i \in 1..Len(s) : FilenameEnd(s, i) > 0
    THEN LET i == CHOOSE j \in 1..Len(s) :
                      /\ FilenameEnd(s, j) > 0
                      /\ \A m \in 1..(j - 1) : FilenameEnd(s, m) = 0
         IN  Some(SubSeq(s, i, FilenameEnd(s, i)))
    ELSE NoneVal

-----------------------------------------------------------------------------
(* get_earnings_release_exhibit_info called on its own                      *)

\* what precedes the last "/" of a URL, the "/" included
DirOf(url) == SubSeq(url, 1, Len(url) - Len(AfterLast(url, <<"/">>)))

\* urljoin(base, ref) for the references of the model: an absolute URL stays,
\* a relative name replaces the last segment of the base
Urljoin(base, ref) ==
    IF StartsWith(Lower(ref), <<"h", "t", "t", "p">>) THEN ref ELSE DirOf(base) \o ref

\* os.path.basename(urlparse(url).path) for a URL without query and fragment
Basename(url) == AfterLast(url, <<"/">>)

\* f"{archive_base_url}{accession_clean}/", shortened
ArchiveDir == <<"e", "/", "1", "/">>

primary_doc_filename == <<"m", "a", "i", "n", ".", "h", "t", "m">>

primary_doc_url == ArchiveDir \o primary_doc_filename

\* an element of the primary document: a link outside a table, or a table row
\* with its cell text and at most one link
Item(row, cells, has_link, href, text) ==
    [row |-> row, cells |-> cells, has_link |-> has_link, href |-> href, text |-> text]

FreeLink(href, text) == Item(FALSE, <<>>, TRUE, href, text)

TextEarningsRelease ==
    <<"Q", "3", " ", "2", "0", "2", "4", " ", "E", "a", "r", "n", "i", "n",
      "g", "s", " ", "R", "e", "l", "e", "a", "s", "e">>

\* links outside a table
FreeLinks ==
    {FreeLink(<<"e", "x", "9", "9", "-", "1", ".", "h", "t", "m">>,
              TextEarningsRelease),
     FreeLink(<<"e", "x", "-", "9", "9", ".", "h", "t", "m">>,
              <<"P", "r", "e", "s", "s", " ", "R", "e", "l", "e", "a", "s",
                "e">>),
     FreeLink(<<"e", "x", "9", "9", "-", "2", ".", "h", "t", "m">>,
              <<"E", "a", "r", "n", "i", "n", "g", "s", " ", "P", "r", "e",
                "s", "e", "n", "t", "a", "t", "i", "o", "n">>),
     FreeLink(<<"e", "x", "9", "9", "-", "0", "1", ".", "h", "t", "m">>,
              <<"N", "e", "w", "s", " ", "R", "e", "l", "e", "a", "s", "e">>),
     FreeLink(primary_doc_filename,
              <<"E", "X", "-", "9", "9", ".", "1", " ", "P", "r", "e", "s",
                "s", " ", "R", "e", "l", "e", "a", "s", "e">>),
     FreeLink(<<"#", "t", "o", "p">>,
              <<"E", "X", "-", "9", "9", ".", "1", " ", "E", "a", "r", "n",
                "i", "n", "g", "s">>),
     FreeLink(<<"o", "t", "h", "e", "r", ".", "h", "t", "m">>,
              <<"P", "r", "e", "s", "s", " ", "R", "e", "l", "e", "a", "s",
                "e">>),
     FreeLink(<<"e", "x", "9", "9", "-", "1", ".", "h", "t", "m">>,
              <<"E", "x", "h", "i", "b", "i", "t">>)}

\* table rows: an exhibit link whose keyword stands in the row, a row naming
\* the exhibit file in text, a row with a keyword only, a row without a file
TableRows ==
    {Item(TRUE, <<"9", "9", ".", "1", " ", "P", "r", "e", "s", "s", " ", "R",
                  "e", "l", "e", "a", "s", "e">>,
          TRUE, <<"e", "x", "9", "9", "-", "1", ".", "h", "t", "m">>,
          <<"E", "x", "h", "i", "b", "i", "t">>),
     Item(TRUE, <<"E", "X", "-", "9", "9", ".", "1", " ", "P", "r", "e", "s",
                  "s", " ", "R", "e", "l", "e", "a", "s", "e", " ", "e", "x",
                  "9", "9", "1", ".", "h", "t", "m">>,
          FALSE, <<>>, <<>>),
     Item(TRUE, <<"F", "i", "n", "a", "n", "c", "i", "a", "l", " ", "R", "e",
                  "s", "u", "l", "t", "s">>,
          FALSE, <<>>, <<>>),
     Item(TRUE, <<"E", "X", "-", "9", "9", ".", "2", " ", "E", "a", "r", "n",
                  "i", "n", "g", "s", " ", "P", "r", "e", "s", "e", "n", "t",
                  "a", "t", "i", "o", "n">>,
          FALSE, <<>>, <<>>)}

Documents == UNION {[1..n -> FreeLinks \cup TableRows] : n \in 0..MaxItems}

\* row.get_text(" ", strip=True)
RowText(item) ==
    IF item.has_link /\ item.cells # <<>> THEN item.cells \o <<" ">> \o item.text
    ELSE IF item.has_link THEN item.text
    ELSE item.cells

RECURSIVE LinksOf(_)
\* soup.find_all('a', href=True), each link with the text of its parent row
LinksOf(doc) ==
    IF doc = <<>> THEN <<>>
    ELSE (IF Head(doc).has_link
          THEN <<[href |-> Head(doc).href, text |-> Head(doc).text,
                  parent_row |-> IF Head(doc).row THEN RowText(Head(doc)) ELSE <<>>]>>
          ELSE <<>>) \o LinksOf(Tail(doc))

RECURSIVE RowsOf(_)
\* the texts of soup.find_all('tr')
RowsOf(doc) ==
    IF doc = <<>> THEN <<>>
    ELSE (IF Head(doc).row THEN <<RowText(Head(doc))>> ELSE <<>>) \o RowsOf(Tail(doc))

\* "if not href or href.startswith(('#', 'javascript:')): continue"
SkippedHref(href) ==
    \/ href = <<>>
    \/ StartsWith(href, <<"#">>)
    \/ StartsWith(href, <<"j", "a", "v", "a", "s", "c", "r", "i", "p", "t", ":">>)

\* variant of IsCandidateLink: one of the two matches is enough
IsCandidateLink_mut(link) ==
    LET href == Lower(link.href)
        link_text == Lower(link.text)
        full_context == link_text \o <<" ">> \o Lower(link.parent_row)
    IN  /\ ~SkippedHref(href)
        /\ ExhibitMatch(href \o <<" ">> \o link_text) \/ KeywordMatch(full_context)
        /\ ~Contains(Lower(Urljoin(primary_doc_url, link.href)),
                     Lower(primary_doc_filename))

\* exhibit_match and keyword_match of a link, and not a link to the primary
\* document itself
IsCandidateLink(link) ==
    LET href == Lower(link.href)
        link_text == Lower(link.text)
        full_context == link_text \o <<" ">> \o Lower(link.parent_row)
    IN  /\ ~SkippedHref(href)
        /\ ExhibitMatch(href \o <<" ">> \o link_text)
        /\ KeywordMatch(full_context)
        /\ ~Contains(Lower(Urljoin(primary_doc_url, link.href)),
                     Lower(primary_doc_filename))

\* the dictionary appended to candidate_links
CandidateOf(link) ==
    LET pattern == FirstPattern(Lower(link.href) \o <<" ">> \o Lower(link.text))
        exhibit_url == Urljoin(primary_doc_url, link.href)
    IN  [url |-> exhibit_url, filename |-> Basename(exhibit_url),
         description |-> link.text, type |-> pattern.type,
         priority |-> pattern.priority]

\* variant of BestCandidate: the first candidate in document order
BestCandidate_mut(candidate_links) == candidate_links[1]

\* sorted(candidate_links, key=lambda x: x['priority'])[0]; the sort is stable
BestCandidate(candidate_links) ==
    candidate_links[CHOOSE k \in 1..Len(candidate_links) :
        /\ \A j \in 1..Len(candidate_links) :
               candidate_links[j].priority >= candidate_links[k].priority
        /\ \A j \in 1..(k - 1) :
               candidate_links[j].priority > candidate_links[k].priority]

\* {k: v for k, v in best_candidate.items() if k != 'priority'}
WithoutPriority(c) ==
    [url |-> c.url, filename |-> c.filename, description |-> c.description,
     type |-> c.type]

\* the row matches an exhibit pattern and a keyword
IsPromisingRow(row_text) == ExhibitMatch(Lower(row_text)) /\ KeywordMatch(Lower(row_text))

\* what the text search returns for a promising row with a file name
TextSearchResult(row_text) ==
    LET found_filename == FirstFilename(row_text).val IN
    [url |-> Urljoin(primary_doc_url, found_filename), filename |-> found_filename,
     description |-> <<"E", "x", "h", "i", "b", "i", "t", " ">>
                         \o FirstPattern(Lower(row_text)).type
                         \o <<" ", "(", "t", "e", "x", "t", " ", "s", "e", "a", "r", "c", "h", ")">>,
     type |-> FirstPattern(Lower(row_text)).type]

InitResolve ==
    /\ NoRequest
    /\ IdleFeed /\ IdleResults
    /\ futures = <<>>
    /\ rg = <<>>
    /\ th = IdleThreads
    /\ \E doc \in Documents, ok \in BOOLEAN :
           rs = [pc |-> "fetch", fetch_ok |-> ok, doc |-> doc, i |-> 0,
                 candidate_links |-> <<>>, stage |-> "none", ret |-> NoneVal]

resolve_rest == <<cl, pc, request_vars, user_fy_end_month_int, all_filings_raw,
                  scan_vars, outcome, feed_vars, result_vars, log_lines, futures, rg,
                  th>>

\* r_filing = robust_get(primary_doc_url, retries=2, delay=0.5) and the parse:
\* an exception makes the resolver return None; rs.stage tells which return
\* statement ended the call
ResolverFetch ==
    /\ rs.pc = "fetch"
    /\ rs' = IF rs.fetch_ok THEN [rs EXCEPT !.pc = "links"]
             ELSE [rs EXCEPT !.pc = "done", !.stage = "error"]
    /\ UNCHANGED resolve_rest

\* stage 1, one iteration of "for link in soup.find_all('a', href=True)"
ScanLink ==
    /\ rs.pc = "links"
    /\ rs.i < Len(LinksOf(rs.doc))
    /\ LET link == LinksOf(rs.doc)[rs.i + 1] IN
       rs' = [rs EXCEPT
                 !.i = @ + 1,
                 !.candidate_links =
                     IF IsCandidateLink(link) THEN Append(@, CandidateOf(link)) ELSE @]
    /\ UNCHANGED resolve_rest

\* variant of PickBest: the text search runs whatever stage 1 found
PickBest_mut ==
    /\ rs.pc = "links"
    /\ rs.i = Len(LinksOf(rs.doc))
    /\ rs' = [rs EXCEPT !.pc = "rows", !.i = 0]
    /\ UNCHANGED resolve_rest

\* "if candidate_links": the best candidate is returned; otherwise stage 2
PickBest ==
    /\ rs.pc = "links"
    /\ rs.i = Len(LinksOf(rs.doc))
    /\ rs' = IF rs.candidate_links # <<>>
             THEN [rs EXCEPT !.pc = "done", !.stage = "hyperlink",
                             !.ret = Some(WithoutPriority(BestCandidate(rs.candidate_links)))]
             ELSE [rs EXCEPT !.pc = "rows", !.i = 0]
    /\ UNCHANGED resolve_rest

\* stage 2, one iteration of "for row in soup.find_all('tr')"
ScanRow ==
    /\ rs.pc = "rows"
    /\ rs.i < Len(RowsOf(rs.doc))
    /\ LET row_text == RowsOf(rs.doc)[rs.i + 1] IN
       rs' = IF IsPromisingRow(row_text) /\ ~FirstFilename(row_text).isNone
             THEN [rs EXCEPT !.pc = "done", !.stage = "text",
                             !.ret = Some(TextSearchResult(row_text))]
             ELSE [rs EXCEPT !.i = @ + 1]
    /\ UNCHANGED resolve_rest

\* no row led to a file name: return None
NoExhibit ==
    /\ rs.pc = "rows"
    /\ rs.i = Len(RowsOf(rs.doc))
    /\ rs' = [rs EXCEPT !.pc = "done", !.stage = "nothing"]
    /\ UNCHANGED resolve_rest

NextResolve == ResolverFetch \/ ScanLink \/ PickBest \/ ScanRow \/ NoExhibit

SpecResolve == InitResolve /\ [][NextResolve]_vars

-----------------------------------------------------------------------------
(* The task pipeline: worker pool and result collection                     *)

Form8KER == <<"8", "-", "K", "_", "E", "R">>

\* the k-th task of a task list of the given mode
PoolTask(mode, k) ==
    LET form == IF mode = "8K_Earnings" THEN Form8KER
                ELSE <<Form10K, Form10Q, Form10KA>>[(k % 3) + 1]
        yy == Fmt02d(17 + k)
    IN  [target_url |-> IF mode = "8K_Earnings" THEN "ex99-1.htm" ELSE "doc.htm",
         form |-> form, accession |-> k, filing_date |-> Date(2017 + k, 2, 20),
         assigned_period_label |->
             (IF form = Form10Q THEN <<"1", "Q">> ELSE <<"F", "Y">>) \o yy]

\* the task lists of the pool runs: one to MaxTasks tasks of one mode
TaskLists ==
    {[k \in 1..n |-> PoolTask(mode, k)] : n \in 1..MaxTasks, mode \in FetchModes}

\* how download_and_process_generic can end: with a PDF, or at the stage that
\* failed: the download (robust_get raises), the decode and parse, the asset
\* localisation, the write of the HTML file, the render (no PDF comes back)
WorkerOutcomes == {"ok", "download", "decode", "assets", "write", "render"}

\* the stages whose failure is an exception caught at line 1060
RaisesInWorker(stage) == stage \in {"download", "decode", "assets", "write"}

\* what the worker returns: (form, pdf_path, generated_pdf_basename) from line
\* 1059, or (form, None, None) from line 1064 after a caught exception; a
\* render that fails comes back from convert_generic_to_pdf as (None, None)
WorkerReturn(task, stage) ==
    IF stage = "ok"
    THEN [form |-> task.form,
          pdf_path |-> Some([dir |-> task.accession,
                             name |-> task.assigned_period_label]),
          generated_pdf_basename |-> Some(task.assigned_period_label)]
    ELSE [form |-> task.form, pdf_path |-> NoneVal, generated_pdf_basename |-> NoneVal]

\* the intermediate files on disk when the worker reaches its finally clause;
\* download_assets catches what its downloads raise, so a failure of the
\* asset stage (lines 1055-1056) comes before any asset is written
FilesWritten(stage) ==
    IF stage \in {"render", "ok"} THEN {"html", "asset"}
    ELSE IF stage = "write" THEN {"asset"}
    ELSE {}

\* cleanup_files(html_path, downloaded_assets, ...): the HTML file when it
\* exists, and the assets download_assets returned
CleanedUp(stage) ==
    (IF stage \in {"render", "ok"} THEN {"html"} ELSE {})
        \cup (IF stage \in {"write", "render", "ok"} THEN {"asset"} ELSE {})

\* variant of YieldsPdf: every returned tuple counts as a PDF
YieldsPdf_mut(result) == TRUE

\* "if pdf_path and generated_pdf_basename"
YieldsPdf(result) == ~result.pdf_path.isNone /\ ~result.generated_pdf_basename.isNone

\* variant of BucketKey: the task's form is the key as it stands, an
\* amendment's "/A" included
BucketKey_mut(result, task) ==
    IF result.form = Form8KER THEN "8-K_ER"
    ELSE IF task.form = Form10K THEN "10-K"
    ELSE IF task.form = Form10Q THEN "10-Q"
    ELSE "other"

\* key = "8-K_ER" if form_type_returned == "8-K_ER" else form.split('/')[0]
BucketKey(result, task) ==
    IF result.form = Form8KER THEN "8-K_ER"
    ELSE IF BeforeFirst(task.form, <<"/">>) = Form10K THEN "10-K"
    ELSE IF BeforeFirst(task.form, <<"/">>) = Form10Q THEN "10-Q"
    ELSE "other"

\* the selection has handed a task list to the pool
InitPool ==
    /\ cl = IdleCall
    /\ pc = "done"
    /\ outcome = "dispatched"
    /\ tasks_to_submit \in TaskLists
    /\ fetch_mode = (IF tasks_to_submit[1].form = Form8KER THEN "8K_Earnings"
                     ELSE "10K_10Q")
    /\ fy_month_str = <<"1", "2">>
    /\ user_fy_end_month_int = 12
    /\ fy_adjust = "Same Year"
    /\ latest_only = FALSE
    /\ all_filings_raw = <<>>
    /\ resolver_result = <<>>
    /\ scan_pos = 0
    /\ potential_exhibits_with_filing = <<>>
    /\ unique_verified_exhibits = <<>>
    /\ processed_periods = {}
    /\ IdleFeed /\ IdleResults /\ IdleCalls

pool_rest == <<cl, request_vars, user_fy_end_month_int, all_filings_raw, scan_vars,
               feed_vars, response, rg, rs, th>>

\* variant of StartPool: total is set for the pipeline, current is left as
\* the fragment fetch left it
StartPool_mut2 ==
    /\ pc = "done"
    /\ outcome = "dispatched"
    /\ progress_data' = [progress_data EXCEPT !.text = "Starting download",
                                              !.total = Len(tasks_to_submit)]
    /\ futures' = [k \in 1..Len(tasks_to_submit) |->
                      [state |-> "submitted", stage |-> "none",
                       result |-> WorkerReturn(tasks_to_submit[k], "none"),
                       left_behind |-> {}]]
    /\ pc' = "pool"
    /\ UNCHANGED <<pool_rest, outcome, pdf_files, report_items, log_lines>>

\* variant of StartPool: the tasks emitted so far are submitted as soon as
\* there is one
StartPool_mut ==
    /\ tasks_to_submit # <<>>
    /\ futures = <<>>
    /\ progress_data' = [text |-> "Starting download", total |-> Len(tasks_to_submit),
                         current |-> 0]
    /\ futures' = [k \in 1..Len(tasks_to_submit) |->
                      [state |-> "submitted", stage |-> "none",
                       result |-> WorkerReturn(tasks_to_submit[k], "none"),
                       left_behind |-> {}]]
    /\ pc' = "pool"
    /\ UNCHANGED <<pool_rest, outcome, pdf_files, report_items, log_lines>>

\* lines 1335-1347: the progress record is reset under the lock and every
\* task is submitted to the executor
StartPool ==
    /\ pc = "done"
    /\ outcome = "dispatched"
    /\ progress_data' = [text |-> "Starting download", total |-> Len(tasks_to_submit),
                         current |-> 0]
    /\ futures' = [k \in 1..Len(tasks_to_submit) |->
                      [state |-> "submitted", stage |-> "none",
                       result |-> WorkerReturn(tasks_to_submit[k], "none"),
                       left_behind |-> {}]]
    /\ pc' = "pool"
    /\ UNCHANGED <<pool_rest, outcome, pdf_files, report_items, log_lines>>

\* a worker runs download_and_process_generic for one task to its return
WorkerRun ==
    /\ pc = "pool"
    /\ \E k \in 1..Len(futures), stage \in WorkerOutcomes :
           /\ futures[k].state = "submitted"
           /\ futures' = [futures EXCEPT
                             ![k] = [state |-> "done", stage |-> stage,
                                     result |-> WorkerReturn(tasks_to_submit[k], stage),
                                     left_behind |-> FilesWritten(stage) \ CleanedUp(stage)]]
           /\ log_lines' = IF RaisesInWorker(stage)
                           THEN Append(log_lines, "ERROR processing")
                           ELSE log_lines
    /\ UNCHANGED <<pool_rest, pc, outcome, pdf_files, report_items, progress_data>>

\* one iteration of "for i, future in enumerate(as_completed(futures_map))"
CollectResult ==
    /\ pc = "pool"
    /\ \E k \in 1..Len(futures) :
           /\ futures[k].state = "done"
           /\ futures' = [futures EXCEPT ![k].state = "collected"]
           /\ progress_data' =
                  [progress_data EXCEPT
                      !.text = "Downloading and processing",
                      !.current = Cardinality({j \in 1..Len(futures) :
                                                  futures[j].state = "collected"}) + 1]
           /\ LET result == futures[k].result
                  key == BucketKey(result, tasks_to_submit[k])
              IN  IF YieldsPdf(result)
                  THEN /\ pdf_files' = IF key \in DOMAIN pdf_files
                                       THEN [pdf_files EXCEPT
                                                ![key] = Append(@, result.pdf_path.val)]
                                       ELSE pdf_files
                       /\ report_items' =
                              Append(report_items,
                                     [document_name |-> result.generated_pdf_basename.val,
                                      filing_date |-> tasks_to_submit[k].filing_date])
                       /\ log_lines' = Append(log_lines, "Successfully processed PDF")
                  ELSE /\ log_lines' = Append(log_lines, "did not yield a PDF")
                       /\ UNCHANGED <<pdf_files, report_items>>
    /\ UNCHANGED <<pool_rest, pc, outcome>>

\* variant of FinishPool: the loop is left as soon as one result is taken
FinishPool_mut ==
    /\ pc = "pool"
    /\ \E k \in 1..Len(futures) : futures[k].state = "collected"
    /\ progress_data' = [progress_data EXCEPT !.text = "Processing complete."]
    /\ log_lines' = Append(log_lines, "Thread pool shutdown.")
    /\ pc' = "done"
    /\ outcome' = "finished"
    /\ UNCHANGED <<pool_rest, futures, pdf_files, report_items>>

\* the executor has shut down: the final progress text, and process_filing
\* returns its buckets and report items
FinishPool ==
    /\ pc = "pool"
    /\ \A k \in 1..Len(futures) : futures[k].state = "collected"
    /\ progress_data' = [progress_data EXCEPT !.text = "Processing complete."]
    /\ log_lines' = Append(log_lines, "Thread pool shutdown.")
    /\ pc' = "done"
    /\ outcome' = "finished"
    /\ UNCHANGED <<pool_rest, futures, pdf_files, report_items>>

NextPool == StartPool \/ WorkerRun \/ CollectResult \/ FinishPool \/ Respond

SpecPool == InitPool /\ [][NextPool]_vars

\* the pool with its scheduling: the main thread runs on, every submitted
\* task gets a worker thread and, by assumption, every worker returns
FairPool ==
    /\ InitPool
    /\ [][NextPool]_vars
    /\ WF_vars(StartPool)
    /\ WF_vars(WorkerRun)
    /\ WF_vars(CollectResult)
    /\ WF_vars(FinishPool)
    /\ WF_vars(Respond)

-----------------------------------------------------------------------------
(* The task pipeline statement by statement, with the progress lock and a   *)
(* /progress request served beside it                                       *)

\* the positions at which the pipeline waits for progress_lock, and where it
\* is once it has it (lines 1337, 1351, 1369)
AfterAcquire(pos) ==
    IF pos = "reset_wait" THEN "reset_text"
    ELSE IF pos = "tick_wait" THEN "tick_text"
    ELSE "final_text"

\* where the pipeline goes on after it has released the lock
AfterRelease(pos) ==
    IF pos = "reset_release" THEN "submit"
    ELSE IF pos = "tick_release" THEN "result"
    ELSE "shutdown"

\* the task list is at "Execute Tasks" and nothing has been written yet
InitLock == InitPool /\ Len(tasks_to_submit) < MaxTasks

lock_rest == <<cl, request_vars, user_fy_end_month_int, all_filings_raw, scan_vars,
               feed_vars, response, rg, rs>>

\* lines 1335-1336: process_filing arrives at the first "with progress_lock"
EnterPipeline ==
    /\ pc = "done"
    /\ outcome = "dispatched"
    /\ th.orch = "idle"
    /\ th' = [th EXCEPT !.orch = "reset_wait"]
    /\ pc' = "pool"
    /\ UNCHANGED <<lock_rest, outcome, futures, pdf_files, report_items, progress_data,
                   log_lines>>

\* variant of OrchAcquire: the block is entered without the lock
OrchAcquire_mut ==
    /\ th.orch \in {"reset_wait", "tick_wait", "final_wait"}
    /\ th' = [th EXCEPT !.orch = AfterAcquire(th.orch)]
    /\ UNCHANGED <<lock_rest, pc, outcome, futures, pdf_files, report_items,
                   progress_data, log_lines>>

\* "with progress_lock:" in process_filing: blocks until the lock is free
OrchAcquire ==
    /\ th.orch \in {"reset_wait", "tick_wait", "final_wait"}
    /\ th.holder = "free"
    /\ th' = [th EXCEPT !.holder = "orchestrator", !.orch = AfterAcquire(th.orch)]
    /\ UNCHANGED <<lock_rest, pc, outcome, futures, pdf_files, report_items,
                   progress_data, log_lines>>

\* one assignment to progress_data inside a with block (lines 1338-1340,
\* 1352-1353, 1370)
OrchWrite ==
    /\ th.orch \in {"reset_text", "reset_total", "reset_current", "tick_text",
                    "tick_current", "final_text"}
    /\ progress_data' =
           IF th.orch = "reset_text"
           THEN [progress_data EXCEPT !.text = "Starting download"]
           ELSE IF th.orch = "reset_total"
           THEN [progress_data EXCEPT !.total = Len(tasks_to_submit)]
           ELSE IF th.orch = "reset_current"
           THEN [progress_data EXCEPT !.current = 0]
           ELSE IF th.orch = "tick_text"
           THEN [progress_data EXCEPT !.text = "Downloading and processing"]
           ELSE IF th.orch = "tick_current"
           THEN [progress_data EXCEPT
                    !.current = Cardinality({j \in 1..Len(futures) :
                                                futures[j].state = "collected"}) + 1]
           ELSE [progress_data EXCEPT !.text = "Processing complete."]
    /\ th' = [th EXCEPT
                 !.orch = IF th.orch = "reset_text" THEN "reset_total"
                          ELSE IF th.orch = "reset_total" THEN "reset_current"
                          ELSE IF th.orch = "reset_current" THEN "reset_release"
                          ELSE IF th.orch = "tick_text" THEN "tick_current"
                          ELSE IF th.orch = "tick_current" THEN "tick_release"
                          ELSE "final_release"]
    /\ UNCHANGED <<lock_rest, pc, outcome, futures, pdf_files, report_items, log_lines>>

\* the end of a with block
OrchRelease ==
    /\ th.orch \in {"reset_release", "tick_release", "final_release"}
    /\ th' = [th EXCEPT !.holder = "free", !.orch = AfterRelease(th.orch)]
    /\ UNCHANGED <<lock_rest, pc, outcome, futures, pdf_files, report_items,
                   progress_data, log_lines>>

\* line 1347: every task is submitted to the executor
SubmitTasks ==
    /\ th.orch = "submit"
    /\ futures' = [k \in 1..Len(tasks_to_submit) |->
                      [state |-> "submitted", stage |-> "none",
                       result |-> WorkerReturn(tasks_to_submit[k], "none"),
                       left_behind |-> {}]]
    /\ th' = [th EXCEPT !.orch = "as_completed"]
    /\ UNCHANGED <<lock_rest, pc, outcome, pdf_files, report_items, progress_data,
                   log_lines>>

\* line 1348: as_completed hands the loop a future whose worker has returned
YieldCompleted ==
    /\ th.orch = "as_completed"
    /\ \E k \in 1..Len(futures) :
           /\ futures[k].state = "done"
           /\ futures' = [futures EXCEPT ![k].state = "yielded"]
    /\ th' = [th EXCEPT !.orch = "tick_wait"]
    /\ UNCHANGED <<lock_rest, pc, outcome, pdf_files, report_items, progress_data,
                   log_lines>>

\* lines 1355-1367: the result of the future in hand goes to its bucket and
\* to the report items, or the failure is logged
TakeResult ==
    /\ th.orch = "result"
    /\ \E k \in 1..Len(futures) :
           /\ futures[k].state = "yielded"
           /\ futures' = [futures EXCEPT ![k].state = "collected"]
           /\ LET result == futures[k].result
                  key == BucketKey(result, tasks_to_submit[k])
              IN  IF YieldsPdf(result)
                  THEN /\ pdf_files' = IF key \in DOMAIN pdf_files
                                       THEN [pdf_files EXCEPT
                                                ![key] = Append(@, result.pdf_path.val)]
                                       ELSE pdf_files
                       /\ report_items' =
                              Append(report_items,
                                     [document_name |-> result.generated_pdf_basename.val,
                                      filing_date |-> tasks_to_submit[k].filing_date])
                       /\ log_lines' = Append(log_lines, "Successfully processed PDF")
                  ELSE /\ log_lines' = Append(log_lines, "did not yield a PDF")
                       /\ UNCHANGED <<pdf_files, report_items>>
    /\ th' = [th EXCEPT !.orch = "as_completed"]
    /\ UNCHANGED <<lock_rest, pc, outcome, progress_data>>

\* the loop has taken every future and the executor has shut down
LeaveLoop ==
    /\ th.orch = "as_completed"
    /\ \A k \in 1..Len(futures) : futures[k].state = "collected"
    /\ th' = [th EXCEPT !.orch = "final_wait"]
    /\ UNCHANGED <<lock_rest, pc, outcome, futures, pdf_files, report_items,
                   progress_data, log_lines>>

\* lines 1372-1377
ReturnResults ==
    /\ th.orch = "shutdown"
    /\ log_lines' = Append(log_lines, "Thread pool shutdown.")
    /\ pc' = "done"
    /\ outcome' = "finished"
    /\ th' = [th EXCEPT !.orch = "idle"]
    /\ UNCHANGED <<lock_rest, futures, pdf_files, report_items, progress_data>>

\* progress_endpoint, "with progress_lock:"
PollAcquire ==
    /\ th.poll = "idle"
    /\ th.holder = "free"
    /\ th' = [th EXCEPT !.holder = "poller", !.poll = "locked"]
    /\ UNCHANGED <<lock_rest, pc, outcome, futures, pdf_files, report_items,
                   progress_data, log_lines>>

\* jsonify(progress_data)
PollRead ==
    /\ th.poll = "locked"
    /\ th' = [th EXCEPT !.poll = "read", !.seen = Some(progress_data)]
    /\ UNCHANGED <<lock_rest, pc, outcome, futures, pdf_files, report_items,
                   progress_data, log_lines>>

\* the with block of progress_endpoint ends and the answer is sent
PollRelease ==
    /\ th.poll = "read"
    /\ th' = [th EXCEPT !.holder = "free", !.poll = "idle", !.seen = NoneVal]
    /\ UNCHANGED <<lock_rest, pc, outcome, futures, pdf_files, report_items,
                   progress_data, log_lines>>

NextLock ==
    \/ EnterPipeline
    \/ OrchAcquire
    \/ OrchWrite
    \/ OrchRelease
    \/ SubmitTasks
    \/ WorkerRun
    \/ YieldCompleted
    \/ TakeResult
    \/ LeaveLoop
    \/ ReturnResults
    \/ PollAcquire
    \/ PollRead
    \/ PollRelease

SpecLock == InitLock /\ [][NextLock]_vars

-----------------------------------------------------------------------------
(* download_and_process_generic called on its own, step by step             *)

\* the worker at its first statement: nothing on disk, html_path = None,
\* downloaded_assets = []; the document links n assets
WorkerAt(task, n) ==
    [pc |-> "download", task |-> task, linked |-> 1..n, stage |-> "none",
     html_path |-> FALSE, html_on_disk |-> FALSE, html_written |-> FALSE,
     downloaded_assets |-> {}, assets_on_disk |-> {}, assets_written |-> {},
     attempted_html |-> FALSE, attempted_assets |-> {},
     result |-> WorkerReturn(task, "none"), returned |-> FALSE]

InitWorker ==
    /\ NoRequest
    /\ IdleFeed /\ IdleResults
    /\ rg = <<>>
    /\ rs = <<>>
    /\ th = IdleThreads
    /\ \E tl \in TaskLists, n \in 0..MaxAssets :
           futures = <<WorkerAt(tl[Len(tl)], n)>>

worker_rest == <<cl, pc, request_vars, user_fy_end_month_int, all_filings_raw, scan_vars,
                 outcome, feed_vars, result_vars, rg, rs, th>>

\* the exception handler of line 1060: the error is logged and the finally
\* clause runs; the function will return (form, None, None)
Caught(w, stage) ==
    [w EXCEPT !.pc = "finally", !.stage = stage, !.result = WorkerReturn(w.task, stage)]

\* lines 1034-1036: robust_get delivers the document or raises
WDownload ==
    /\ futures[1].pc = "download"
    /\ \E ok \in BOOLEAN :
           IF ok
           THEN /\ futures' = <<[futures[1] EXCEPT !.pc = "decode"]>>
                /\ UNCHANGED log_lines
           ELSE /\ futures' = <<Caught(futures[1], "download")>>
                /\ log_lines' = Append(log_lines, "ERROR processing")
    /\ UNCHANGED worker_rest

\* lines 1038-1054: html_path is set, the bytes are decoded and parsed
WDecode ==
    /\ futures[1].pc = "decode"
    /\ \E ok \in BOOLEAN :
           IF ok
           THEN /\ futures' = <<[futures[1] EXCEPT !.pc = "assets", !.html_path = TRUE]>>
                /\ UNCHANGED log_lines
           ELSE /\ futures' = <<[Caught(futures[1], "decode") EXCEPT !.html_path = TRUE]>>
                /\ log_lines' = Append(log_lines, "ERROR processing")
    /\ UNCHANGED worker_rest

\* lines 1055-1056: clean_internal_links or urljoin raises before any asset
\* is written, or download_assets runs: the assets whose download succeeds
\* are written and their names returned; an asset whose write (line 961)
\* fails is logged, is not among the names returned, and its file stays
WAssets ==
    /\ futures[1].pc = "assets"
    /\ \/ /\ futures' = <<Caught(futures[1], "assets")>>
          /\ log_lines' = Append(log_lines, "ERROR processing")
       \/ \E written \in SUBSET futures[1].linked :
          \E partial \in SUBSET (futures[1].linked \ written) :
              /\ futures' = <<[futures[1] EXCEPT
                                  !.pc = "write",
                                  !.assets_on_disk = written \cup partial,
                                  !.assets_written = written \cup partial,
                                  !.downloaded_assets = written]>>
              /\ log_lines' = IF written # futures[1].linked
                              THEN Append(log_lines, "Warn: Error with asset")
                              ELSE log_lines
    /\ UNCHANGED worker_rest

\* line 1057: the HTML file is written; open or write can fail, and a failed
\* write leaves the file
WWrite ==
    /\ futures[1].pc = "write"
    /\ \E ok \in BOOLEAN, partial \in BOOLEAN :
           IF ok
           THEN /\ futures' = <<[futures[1] EXCEPT !.pc = "render",
                                    !.html_on_disk = TRUE, !.html_written = TRUE]>>
                /\ UNCHANGED log_lines
           ELSE /\ futures' = <<[Caught(futures[1], "write") EXCEPT
                                    !.html_on_disk = partial, !.html_written = partial]>>
                /\ log_lines' = Append(log_lines, "ERROR processing")
    /\ UNCHANGED worker_rest

\* lines 1058-1059: convert_generic_to_pdf returns the PDF or (None, None),
\* and the return statement is reached
WRender ==
    /\ futures[1].pc = "render"
    /\ \E stage \in {"ok", "render"} :
           /\ futures' = <<[futures[1] EXCEPT
                               !.pc = "finally", !.stage = stage,
                               !.result = WorkerReturn(futures[1].task, stage)]>>
           /\ log_lines' = Append(log_lines, IF stage = "ok" THEN "PDF created"
                                             ELSE "ERROR: PDF failed")
    /\ UNCHANGED worker_rest

\* cleanup_files, line 1019: the HTML file is removed when html_path is set
\* and the file exists; os.remove can raise, and then the except clause of
\* line 1026 ends cleanup_files
WCleanHtml ==
    /\ futures[1].pc = "finally"
    /\ IF futures[1].html_path /\ futures[1].html_on_disk
       THEN \E ok \in BOOLEAN :
                IF ok
                THEN /\ futures' = <<[futures[1] EXCEPT
                                         !.pc = "clean_assets", !.attempted_html = TRUE,
                                         !.html_on_disk = FALSE]>>
                     /\ UNCHANGED log_lines
                ELSE /\ futures' = <<[futures[1] EXCEPT
                                         !.pc = "return", !.attempted_html = TRUE]>>
                     /\ log_lines' = Append(log_lines, "ERROR: Cleanup exception")
       ELSE /\ futures' = <<[futures[1] EXCEPT !.pc = "clean_assets"]>>
            /\ UNCHANGED log_lines
    /\ UNCHANGED worker_rest

\* cleanup_files, lines 1020-1025: every asset of the list that exists is
\* removed; an OSError is logged and the loop goes on
WCleanAssets ==
    /\ futures[1].pc = "clean_assets"
    /\ LET there == futures[1].downloaded_assets \cap futures[1].assets_on_disk IN
       \E failing \in SUBSET there :
           /\ futures' = <<[futures[1] EXCEPT
                               !.pc = "return",
                               !.attempted_assets = there,
                               !.assets_on_disk = @ \ (there \ failing)]>>
           /\ log_lines' = IF failing # {}
                           THEN Append(log_lines, "Warning: Error cleaning asset")
                           ELSE log_lines
    /\ UNCHANGED worker_rest

\* line 1059 or line 1064: the tuple goes back to the caller
WReturn ==
    /\ futures[1].pc = "return"
    /\ futures' = <<[futures[1] EXCEPT !.pc = "returned", !.returned = TRUE]>>
    /\ UNCHANGED <<worker_rest, log_lines>>

NextWorker ==
    \/ WDownload
    \/ WDecode
    \/ WAssets
    \/ WWrite
    \/ WRender
    \/ WCleanHtml
    \/ WCleanAssets
    \/ WReturn

SpecWorker == InitWorker /\ [][NextWorker]_vars

-----------------------------------------------------------------------------
(* An 8K_Earnings run in which phase 1 calls the exhibit resolver           *)

LinkEarningsRelease ==
    FreeLink(<<"e", "x", "9", "9", "-", "1", ".", "h", "t", "m">>, TextEarningsRelease)

LinkToPrimary ==
    FreeLink(primary_doc_filename,
             <<"E", "X", "-", "9", "9", ".", "1", " ", "P", "r", "e", "s",
               "s", " ", "R", "e", "l", "e", "a", "s", "e">>)

RowNamingFile ==
    Item(TRUE, <<"E", "X", "-", "9", "9", ".", "1", " ", "P", "r", "e", "s",
                 "s", " ", "R", "e", "l", "e", "a", "s", "e", " ", "e", "x",
                 "9", "9", "1", ".", "h", "t", "m">>,
         FALSE, <<>>, <<>>)

RowWithoutFile ==
    Item(TRUE, <<"E", "X", "-", "9", "9", ".", "2", " ", "E", "a", "r", "n",
                 "i", "n", "g", "s", " ", "P", "r", "e", "s", "e", "n", "t",
                 "a", "t", "i", "o", "n">>,
         FALSE, <<>>, <<>>)

RowNamingOtherFile ==
    Item(TRUE, <<"9", "9", ".", "2", " ", "E", "X", "-", "9", "9", ".", "2", " ",
                 "E", "a", "r", "n", "i", "n", "g", "s", " ", "s", "l", "i", "d",
                 "e", "s", ".", "h", "t", "m", "l">>,
         FALSE, <<>>, <<>>)

\* primary documents of the 8-K filings of a run: an exhibit hyperlink, the
\* hyperlink behind a row that names a file, an exhibit named in a table row
\* only, a row without a file name followed by one with it, two rows naming
\* different files, and two documents without any exhibit
EventDocuments ==
    {<<LinkEarningsRelease>>,
     <<RowNamingFile, LinkEarningsRelease>>,
     <<RowNamingFile>>,
     <<RowWithoutFile, RowNamingFile>>,
     <<RowNamingOtherFile, RowNamingFile>>,
     <<RowWithoutFile>>,
     <<LinkToPrimary>>}

\* the feed of the run: two 8-K filings with item 2.02 and one without
EventRunFilings ==
    {Filing(Form8K, Date(2019, 2, 10), NoneVal, "doc.htm", <<"2.02", "9.01">>),
     Filing(Form8K, Date(2019, 5, 5), NoneVal, "doc.htm", <<"2.02">>),
     Filing(Form8K, Date(2019, 3, 1), NoneVal, "doc.htm", <<"5.02">>)}

\* the 8-K filter and the primary-document test of lines 1180-1183
AsksResolver(filing) == IsEarnings8K(filing) /\ filing.primary_doc # ""

\* the feeds of the runs: at most two records the resolver is asked about
EventFeeds ==
    {fl \in InputLists(EventRunFilings) :
        Cardinality({k \in 1..Len(fl) : AsksResolver(fl[k])}) <= 2}

\* no resolver call under way; calls lists the calls that have returned
IdleResolver ==
    [pc |-> "idle", fetch_ok |-> TRUE, doc |-> <<>>, i |-> 0,
     candidate_links |-> <<>>, stage |-> "none", ret |-> NoneVal, calls |-> <<>>]

InitEvent ==
    /\ cl = IdleCall
    /\ pc = "start"
    /\ fy_month_str = <<"1", "2">>
    /\ fy_adjust = "Same Year"
    /\ latest_only \in BOOLEAN
    /\ fetch_mode = "8K_Earnings"
    /\ \E fl \in EventFeeds : all_filings_raw = WithAccessions(fl)
    /\ resolver_result = [k \in 1..Len(all_filings_raw) |-> NoneVal]
    /\ user_fy_end_month_int = 0
    /\ scan_pos = 0
    /\ potential_exhibits_with_filing = <<>>
    /\ unique_verified_exhibits = <<>>
    /\ processed_periods = {}
    /\ tasks_to_submit = <<>>
    /\ outcome = "running"
    /\ IdleFeed /\ IdleResults
    /\ futures = <<>>
    /\ rg = <<>>
    /\ th = IdleThreads
    /\ rs = IdleResolver

\* phase 1, lines 1185-1187: get_earnings_release_exhibit_info is called for
\* the record the loop is at; the primary document is what the archive holds
CallResolver8K ==
    /\ pc = "gather_8k"
    /\ scan_pos < Len(all_filings_raw)
    /\ rs.pc = "idle"
    /\ all_filings_raw[scan_pos + 1].items # NullItems
    /\ AsksResolver(all_filings_raw[scan_pos + 1])
    /\ \E doc \in EventDocuments, ok \in BOOLEAN :
           rs' = [rs EXCEPT !.pc = "fetch", !.fetch_ok = ok,
                            !.doc = IF ok THEN doc ELSE <<>>,
                            !.i = 0, !.candidate_links = <<>>, !.stage = "none",
                            !.ret = NoneVal]
    /\ UNCHANGED resolve_rest

\* variant of Retain8K: a failure inside the resolver ends the selection
Retain8K_mut ==
    /\ pc = "gather_8k"
    /\ rs.pc = "done"
    /\ LET filing == all_filings_raw[scan_pos + 1] IN
       /\ potential_exhibits_with_filing' =
              IF ~rs.ret.isNone
              THEN Append(potential_exhibits_with_filing,
                          [filing_date |-> filing.filing_date,
                           exhibit_info |-> rs.ret.val,
                           original_filing |-> filing])
              ELSE potential_exhibits_with_filing
       /\ log_lines' = Append(log_lines, IF ~rs.ret.isNone THEN "Found potential exhibit"
                                         ELSE "no true earnings exhibit found")
       /\ resolver_result' = [resolver_result EXCEPT ![filing.accession_clean] = rs.ret]
       /\ rs' = [rs EXCEPT !.pc = "idle",
                           !.calls = Append(@, [accession |-> filing.accession_clean,
                                                doc |-> rs.doc, stage |-> rs.stage,
                                                ret |-> rs.ret])]
    /\ scan_pos' = scan_pos + 1
    /\ pc' = IF rs.stage = "error" THEN "done" ELSE pc
    /\ outcome' = IF rs.stage = "error" THEN "main_error" ELSE outcome
    /\ UNCHANGED <<cl, feed_vars, pdf_files, report_items, progress_data,
                   response, futures, rg, th, fy_month_str, fy_adjust, latest_only,
                   fetch_mode, user_fy_end_month_int, all_filings_raw,
                   unique_verified_exhibits, processed_periods, tasks_to_submit>>

\* lines 1188-1196: "if exhibit_info" retains the exhibit with its filing,
\* otherwise the record is skipped; the loop goes on
Retain8K ==
    /\ pc = "gather_8k"
    /\ rs.pc = "done"
    /\ LET filing == all_filings_raw[scan_pos + 1] IN
       /\ potential_exhibits_with_filing' =
              IF ~rs.ret.isNone
              THEN Append(potential_exhibits_with_filing,
                          [filing_date |-> filing.filing_date,
                           exhibit_info |-> rs.ret.val,
                           original_filing |-> filing])
              ELSE potential_exhibits_with_filing
       /\ log_lines' = Append(log_lines, IF ~rs.ret.isNone THEN "Found potential exhibit"
                                         ELSE "no true earnings exhibit found")
       /\ resolver_result' = [resolver_result EXCEPT ![filing.accession_clean] = rs.ret]
       /\ rs' = [rs EXCEPT !.pc = "idle",
                           !.calls = Append(@, [accession |-> filing.accession_clean,
                                                doc |-> rs.doc, stage |-> rs.stage,
                                                ret |-> rs.ret])]
    /\ scan_pos' = scan_pos + 1
    /\ UNCHANGED <<cl, pc, outcome, feed_vars, pdf_files, report_items, progress_data,
                   response, futures, rg, th, fy_month_str, fy_adjust, latest_only,
                   fetch_mode, user_fy_end_month_int, all_filings_raw,
                   unique_verified_exhibits, processed_periods, tasks_to_submit>>

\* lines 1179-1183: a record that is no 8-K with item 2.02 or 9.01, or has no
\* primary document, is passed over; a record without items ends the
\* selection as in Gather8K
Skip8K ==
    /\ pc = "gather_8k"
    /\ scan_pos < Len(all_filings_raw)
    /\ rs.pc = "idle"
    /\ LET filing == all_filings_raw[scan_pos + 1] IN
       IF filing.items = NullItems
       THEN /\ pc' = "done"
            /\ outcome' = "main_error"
            /\ log_lines' = Append(log_lines, "ERROR: Main processing error")
            /\ UNCHANGED scan_pos
       ELSE /\ ~AsksResolver(filing)
            /\ scan_pos' = scan_pos + 1
            /\ UNCHANGED <<pc, outcome, log_lines>>
    /\ UNCHANGED <<cl, feed_vars, result_vars, call_vars, request_vars,
                   user_fy_end_month_int, all_filings_raw,
                   potential_exhibits_with_filing,
                   unique_verified_exhibits, processed_periods, tasks_to_submit>>

NextEvent ==
    \/ Start
    \/ Aggregate
    \/ CallResolver8K
    \/ ResolverFetch
    \/ ScanLink
    \/ PickBest
    \/ ScanRow
    \/ NoExhibit
    \/ Retain8K
    \/ Skip8K
    \/ Dedup8K
    \/ Label8K
    \/ EndLabel8K
    \/ Execute

SpecEvent == InitEvent /\ [][NextEvent]_vars

-----------------------------------------------------------------------------
(* Two requests in one process: both pipelines write the one progress_data, *)
(* a /progress request reads it; every "with progress_lock" block is one    *)
(* step                                                                     *)

\* the pipeline of one request: its number of tasks and the index i of its
\* as_completed loop
PipelineOf(total_tasks) == [at |-> "before", total_tasks |-> total_tasks, i |-> 0]

\* nothing read yet by /progress; total_by and current_by name the request
\* that wrote the field last, 0 for none
NothingSeen == [holder |-> "free", poll |-> "idle", seen |-> NoneVal,
                total_by |-> 0, current_by |-> 0]

InitTwo ==
    /\ NoRequest
    /\ IdleFeed /\ IdleResults
    /\ rg = <<>>
    /\ rs = <<>>
    /\ th = NothingSeen
    /\ \E n1, n2 \in 1..MaxTasks : futures = <<PipelineOf(n1), PipelineOf(n2)>>

two_rest == <<cl, pc, request_vars, user_fy_end_month_int, all_filings_raw, scan_vars,
              outcome, feed_vars, pdf_files, report_items, response, log_lines, rg, rs>>

\* lines 1337-1340 of request r
ResetProgress(r) ==
    /\ futures[r].at = "before"
    /\ progress_data' = [text |-> "Starting download",
                         total |-> futures[r].total_tasks, current |-> 0]
    /\ futures' = [futures EXCEPT ![r].at = "loop"]
    /\ th' = [th EXCEPT !.total_by = r, !.current_by = r]
    /\ UNCHANGED two_rest

\* lines 1351-1353 of request r: one more future has completed
AdvanceProgress(r) ==
    /\ futures[r].at = "loop"
    /\ futures[r].i < futures[r].total_tasks
    /\ progress_data' = [progress_data EXCEPT !.text = "Downloading and processing",
                                              !.current = futures[r].i + 1]
    /\ futures' = [futures EXCEPT ![r].i = @ + 1]
    /\ th' = [th EXCEPT !.current_by = r]
    /\ UNCHANGED two_rest

\* lines 1369-1370 of request r
CompleteProgress(r) ==
    /\ futures[r].at = "loop"
    /\ futures[r].i = futures[r].total_tasks
    /\ progress_data' = [progress_data EXCEPT !.text = "Processing complete."]
    /\ futures' = [futures EXCEPT ![r].at = "after"]
    /\ UNCHANGED <<two_rest, th>>

\* progress_endpoint: "with progress_lock: return jsonify(progress_data)"
ProgressEndpoint ==
    /\ th' = [th EXCEPT !.seen = Some([text |-> progress_data.text,
                                       total |-> progress_data.total,
                                       current |-> progress_data.current,
                                       total_by |-> th.total_by,
                                       current_by |-> th.current_by])]
    /\ UNCHANGED <<two_rest, futures, progress_data>>

NextTwo ==
    \/ \E r \in {1, 2} : ResetProgress(r)
    \/ \E r \in {1, 2} : AdvanceProgress(r)
    \/ \E r \in {1, 2} : CompleteProgress(r)
    \/ ProgressEndpoint

SpecTwo == InitTwo /\ [][NextTwo]_vars

-----------------------------------------------------------------------------
(* A whole request: feed, selection, worker pool, answer                    *)

\* feeds of the whole-request runs: the submissions document with at most one
\* historical file, which fails or delivers a fragment, and any 'recent'
RunFeeds ==
    {fd \in Feeds :
        /\ Len(fd.files) <= 1
        /\ \A k \in 1..Len(fd.files) :
               fd.files[k].ok => fd.files[k].data = Fragment(<<RawAmended, RawRelease>>)}

InitRun == InitFeed /\ submissions \in RunFeeds

NextRun == NextFeed \/ StartPool \/ WorkerRun \/ CollectResult \/ FinishPool

SpecRun == InitRun /\ [][NextRun]_vars

-----------------------------------------------------------------------------
(* Properties of the classifiers (SpecClassify)                             *)

\* the two decimal digits of n, 0 <= n <= 99
TwoDigits(n) == <<Digits[(n \div 10) + 1], Digits[(n % 10) + 1]>>

\* the call's month argument is an integer month 1..12
FyemInRange == cl.fyem.kind = "int" /\ cl.fyem.n \in 1..12

ReportDone == cl.fn = "report" /\ cl.done /\ FyemInRange

DistanceDone == cl.fn = "distance" /\ cl.done /\ FyemInRange

\* the label year the specification prescribes for the report-date variant
ExpectedLabelYear ==
    (IF cl.date.month <= cl.fyem.n THEN cl.date.year ELSE cl.date.year + 1)
        - (IF cl.adjust = "Previous Year" THEN 1 ELSE 0)

\* months past the start of the fiscal year, as the specification writes it
MonthsPastStart == (cl.date.month - ((cl.fyem.n % 12) + 1) + 12) % 12

\* C3: for every form, report date, fiscal-year-end month 1..12 and basis,
\* get_period_label_from_report_date returns "FY" and two digits, or a quarter
\* digit 1..3, "Q" and two digits; never a 4Q label or another shape.
C3_LabelShape ==
    ReportDone =>
        LET l == cl.ret.val IN
        /\ ~cl.ret.isNone
        /\ Len(l) = 4
        /\ IsDigit(l[3]) /\ IsDigit(l[4])
        /\ \/ l[1] = "F" /\ l[2] = "Y"
           \/ l[1] \in {"1", "2", "3"} /\ l[2] = "Q"

\* a 10-Q whose unclamped quarter is 4 was classified
C3_Witness ==
    /\ ReportDone
    /\ cl.form = Form10Q
    /\ MonthsPastStart \div 3 + 1 = 4
    /\ cl.ret.val[2] = "Q"

\* C4: for 10-K and any form other than 10-Q the report-date classifier
\* returns FY{yy}, yy the label year modulo 100, the label year being the
\* report year if report month <= fyem, else report year + 1, less 1 for
\* 'Previous Year'; fyem 12, 'Same Year', 10-K, 2024-12-31 gives FY24.
C4_AnnualLabel ==
    /\ (ReportDone /\ cl.form # Form10Q) =>
           cl.ret = Some(<<"F", "Y">> \o TwoDigits(ExpectedLabelYear % 100))
    /\ (ReportDone /\ cl.form = Form10K /\ cl.fyem.n = 12 /\ cl.adjust = "Same Year"
            /\ cl.date = Date(2024, 12, 31)) =>
           cl.ret = Some(<<"F", "Y", "2", "4">>)

\* the FY24 scenario was classified
C4_Witness ==
    /\ ReportDone
    /\ cl.form = Form10K /\ cl.fyem.n = 12 /\ cl.adjust = "Same Year"
    /\ cl.date = Date(2024, 12, 31)
    /\ cl.ret.val = <<"F", "Y", "2", "4">>

\* C5: for 10-Q and every fyem 1..12 the report-date classifier returns
\* {q}Q{yy}, q = (months past start) div 3 + 1 clamped into 1..3 (4 becomes 3),
\* yy the label year modulo 100; fyem 6, 'Same Year', 2024-09-30 gives 1Q25.
C5_QuarterLabel ==
    /\ (ReportDone /\ cl.form = Form10Q) =>
           LET q0 == MonthsPastStart \div 3 + 1
               q == IF q0 > 3 THEN 3 ELSE IF q0 < 1 THEN 1 ELSE q0
           IN  cl.ret = Some(<<Digits[q + 1], "Q">> \o TwoDigits(ExpectedLabelYear % 100))
    /\ (ReportDone /\ cl.form = Form10Q /\ cl.fyem.n = 6 /\ cl.adjust = "Same Year"
            /\ cl.date = Date(2024, 9, 30)) =>
           cl.ret = Some(<<"1", "Q", "2", "5">>)

\* the 1Q25 scenario was classified
C5_Witness ==
    /\ ReportDone
    /\ cl.form = Form10Q /\ cl.fyem.n = 6 /\ cl.adjust = "Same Year"
    /\ cl.date = Date(2024, 9, 30)
    /\ cl.ret.val = <<"1", "Q", "2", "5">>

\* C6: for every filing date and fyem 1..12, get_8k_period_label_by_distance
\* takes fy_end_year = filing year - 1 if filing month <= fyem else filing year
\* (1 less for 'Previous Year') and d = ((month - fyem - 1) mod 12) + 1, and
\* returns FY{fy_end_year mod 100} for d in 1..3 and 1Q, 2Q, 3Q with
\* (fy_end_year + 1) mod 100 for d in 4..6, 7..9, 10..12.
C6_DistanceLabel ==
    DistanceDone =>
        LET fy_end_year ==
                (IF cl.date.month <= cl.fyem.n THEN cl.date.year - 1 ELSE cl.date.year)
                    - (IF cl.adjust = "Previous Year" THEN 1 ELSE 0)
            dd == ((cl.date.month - cl.fyem.n - 1) % 12) + 1
            nxt == TwoDigits((fy_end_year + 1) % 100)
        IN  /\ cl.d = dd
            /\ dd \in 1..3 => cl.ret = Some(<<"F", "Y">> \o TwoDigits(fy_end_year % 100))
            /\ dd \in 4..6 => cl.ret = Some(<<"1", "Q">> \o nxt)
            /\ dd \in 7..9 => cl.ret = Some(<<"2", "Q">> \o nxt)
            /\ dd \in 10..12 => cl.ret = Some(<<"3", "Q">> \o nxt)

\* a filing of the month of the fiscal year end, twelve months after the
\* previous one, was classified as the third quarter across a century
C6_Witness ==
    /\ DistanceDone
    /\ cl.date.month = cl.fyem.n
    /\ cl.d = 12
    /\ cl.date.year = 2000
    /\ cl.adjust = "Same Year"
    /\ cl.ret.val = <<"3", "Q", "0", "0">>

\* C7 as stated: with fyem = 12 and filing date 2024-02-15 the distance d is 4.
C7_Original ==
    (DistanceDone /\ cl.fyem.n = 12 /\ cl.date = Date(2024, 2, 15)) => cl.d = 4

\* C7, amended: with fyem = 12 and filing date 2024-02-15 the distance
\* d = ((2 - 12 - 1) mod 12) + 1 is 2, which is in the FY bucket: the label
\* is FY23 under 'Same Year' and FY22 under 'Previous Year'.
C7_Amended ==
    (DistanceDone /\ cl.fyem.n = 12 /\ cl.date = Date(2024, 2, 15)) =>
        /\ cl.d = 2
        /\ cl.ret = Some(IF cl.adjust = "Same Year" THEN <<"F", "Y", "2", "3">>
                         ELSE <<"F", "Y", "2", "2">>)

\* the 2024-02-15 scenario was classified
C7_Witness ==
    /\ DistanceDone
    /\ cl.fyem.n = 12 /\ cl.date = Date(2024, 2, 15) /\ cl.adjust = "Same Year"
    /\ cl.ret.val = <<"F", "Y", "2", "3">>

-----------------------------------------------------------------------------
(* Properties of the selection scan (Spec)                                  *)

\* the selection of a run has ended and the request did not fail
Selected == pc = "done" /\ outcome # "server_error"

TaskIndices == 1..Len(tasks_to_submit)

\* the two-digit year suffix of a four-character label
LabelYY(l) == DigitVal(l[3]) * 10 + DigitVal(l[4])

IsQuarterLabel(l) == l[1] \in {"1", "2", "3"} /\ l[2] = "Q"

\* the cutoff policy: FY17 is the oldest label, quarters of year 17 are out
PassesCutoff(l) ==
    /\ LabelYY(l) >= EARLIEST_FISCAL_YEAR_SUFFIX
    /\ ~(IsQuarterLabel(l) /\ LabelYY(l) = EARLIEST_FISCAL_YEAR_SUFFIX)

\* the label of a periodic filing under the run's fiscal settings
PeriodOf(f) ==
    get_period_label_from_report_date(
        BeforeFirst(f.form, <<"/">>), f.report_date.val,
        IntMonth(user_fy_end_month_int), fy_adjust)

\* a periodic filing that qualifies for a task
Eligible10K(f) ==
    /\ BeforeFirst(f.form, <<"/">>) \in {Form10K, Form10Q}
    /\ ~f.report_date.isNone
    /\ f.primary_doc # ""
    /\ PassesCutoff(PeriodOf(f))

\* the label of an event-driven filing under the run's fiscal settings
LabelOf8K(f) ==
    get_8k_period_label_by_distance(
        f.filing_date, IntMonth(user_fy_end_month_int), fy_adjust).val

\* the filings that qualify for a task, with their labels: in periodic mode
\* the eligible records, in event-driven mode the filings of the exhibits
\* retained by the URL dedup whose label passes the cutoff
Candidates ==
    IF fetch_mode = "10K_10Q"
    THEN {[filing |-> all_filings_raw[k], label |-> PeriodOf(all_filings_raw[k])] :
             k \in {j \in 1..Len(all_filings_raw) : Eligible10K(all_filings_raw[j])}}
    ELSE {[filing |-> unique_verified_exhibits[k].original_filing,
           label |-> LabelOf8K(unique_verified_exhibits[k].original_filing)] :
             k \in {j \in 1..Len(unique_verified_exhibits) :
                       PassesCutoff(LabelOf8K(unique_verified_exhibits[j].original_filing))}}

\* C1: in a run that is not latest-only, in either mode, no two emitted tasks
\* carry the same period label.
C1_NoDuplicateLabels ==
    ~latest_only =>
        \A i, j \in TaskIndices :
            i # j => tasks_to_submit[i].assigned_period_label
                         # tasks_to_submit[j].assigned_period_label

\* a full periodic run ended with two tasks although three filings qualified,
\* two of them with one label
C1_Witness ==
    /\ Selected /\ ~latest_only /\ fetch_mode = "10K_10Q"
    /\ Len(tasks_to_submit) = 2
    /\ Cardinality(Candidates) = 3
    /\ \E a, b \in Candidates : a.filing # b.filing /\ a.label = b.label

\* C2: in every run, in either mode, latest-only or not, no emitted task has
\* a label whose year suffix is below 17, and none has a quarterly label of
\* year 17; FY17 is the oldest label that can be emitted.
C2_Cutoff ==
    \A i \in TaskIndices : PassesCutoff(tasks_to_submit[i].assigned_period_label)

\* the fiscal year the label of a task stands for, before "% 100"
FiscalYearOfTask(t) ==
    LET f == CHOOSE g \in {all_filings_raw[k] : k \in 1..Len(all_filings_raw)} :
                 g.accession_clean = t.accession
    IN  IF fetch_mode = "10K_10Q"
        THEN LabelYear(f.report_date.val, Fyem(IntMonth(user_fy_end_month_int)), fy_adjust)
        ELSE FyEndYear_8k(f.filing_date, user_fy_end_month_int, fy_adjust)
                 + (IF IsQuarterLabel(t.assigned_period_label) THEN 1 ELSE 0)

\* C34: in a run that is not latest-only no task is emitted for a filing
\* whose fiscal year, taken whole and not by its last two digits, is earlier
\* than 2017.
C34_CutoffOnFullYear ==
    ~latest_only =>
        \A i \in TaskIndices :
            FiscalYearOfTask(tasks_to_submit[i]) >= 2000 + EARLIEST_FISCAL_YEAR_SUFFIX

\* C8: with an unparseable fiscal-year-end month the event-driven selection
\* skips the records it cannot classify and does not fail the request.
C8_UnparseableMonthSkips ==
    (fetch_mode = "8K_Earnings" /\ ~ParseInt(fy_month_str).ok)
        => outcome # "server_error"

\* the qualifying 8-K filings of the feed whose exhibit resolved to url u
ResolvedTo(u) ==
    {all_filings_raw[k] :
        k \in {j \in 1..Len(all_filings_raw) :
                  /\ IsEarnings8K(all_filings_raw[j])
                  /\ all_filings_raw[j].primary_doc # ""
                  /\ resolver_result[all_filings_raw[j].accession_clean]
                         = Some([url |-> u])}}

\* C9: after the URL dedup of event-driven mode no two retained candidates
\* have the same exhibit URL, and the candidate retained for a URL is from
\* the filing with the earliest filing date among all filings that resolved
\* to that URL.
C9_UrlDedup ==
    (fetch_mode = "8K_Earnings" /\ (pc \in {"label_8k", "execute"} \/ Selected)) =>
        /\ \A i, j \in 1..Len(unique_verified_exhibits) :
               i # j => unique_verified_exhibits[i].exhibit_info.url
                            # unique_verified_exhibits[j].exhibit_info.url
        /\ \A i \in 1..Len(unique_verified_exhibits) :
               LET e == unique_verified_exhibits[i] IN
               /\ e.original_filing \in ResolvedTo(e.exhibit_info.url)
               /\ e.filing_date = e.original_filing.filing_date
               /\ \A f \in ResolvedTo(e.exhibit_info.url) :
                      ~DateLT(f.filing_date, e.filing_date)
        /\ \A u \in Urls :
               ResolvedTo(u) # {} =>
                   \E i \in 1..Len(unique_verified_exhibits) :
                       unique_verified_exhibits[i].exhibit_info.url = u

\* two filings resolved to one URL, the earlier-filed one came later in the
\* feed, and the dedup dropped the later-filed one
C9_Witness ==
    /\ fetch_mode = "8K_Earnings" /\ pc = "label_8k"
    /\ Len(unique_verified_exhibits) < Len(potential_exhibits_with_filing)
    /\ \E i \in 1..Len(unique_verified_exhibits) :
       \E f \in ResolvedTo(unique_verified_exhibits[i].exhibit_info.url) :
           LET e == unique_verified_exhibits[i] IN
           /\ DateLT(e.filing_date, f.filing_date)
           /\ f.accession_clean < e.original_filing.accession_clean

\* every candidate's label has exactly one task, and the task is a candidate's
OneTaskPerLabel ==
    /\ \A c \in Candidates :
           Cardinality({i \in TaskIndices :
               tasks_to_submit[i].assigned_period_label = c.label}) = 1
    /\ \A i \in TaskIndices :
           \E c \in Candidates :
               /\ c.filing.accession_clean = tasks_to_submit[i].accession
               /\ c.label = tasks_to_submit[i].assigned_period_label

\* no candidate with the task's label was filed before the task's filing
TaskIsEarliest(i) ==
    \A c \in Candidates :
        c.label = tasks_to_submit[i].assigned_period_label
            => ~DateLT(c.filing.filing_date, tasks_to_submit[i].filing_date)

\* no candidate with the task's label was filed after the task's filing
TaskIsLatest(i) ==
    \A c \in Candidates :
        c.label = tasks_to_submit[i].assigned_period_label
            => ~DateLT(tasks_to_submit[i].filing_date, c.filing.filing_date)

\* C10 as stated: in full mode, in both modes, the task of a label belongs to
\* the earliest-filed qualifying filing with that label; every later-filed
\* one is skipped.
C10_Original ==
    (Selected /\ ~latest_only) =>
        /\ OneTaskPerLabel
        /\ \A i \in TaskIndices : TaskIsEarliest(i)

\* C10, amended: in full mode exactly one qualifying filing per label gets
\* the task and all others with that label are skipped; in event-driven mode
\* it is the earliest-filed one, in periodic mode (scanned newest-first) it
\* is the latest-filed one.
C10_Amended ==
    (Selected /\ ~latest_only) =>
        /\ OneTaskPerLabel
        /\ fetch_mode = "8K_Earnings" => \A i \in TaskIndices : TaskIsEarliest(i)
        /\ fetch_mode = "10K_10Q" => \A i \in TaskIndices : TaskIsLatest(i)

\* a full periodic run gave the label's task to the later-filed of two
\* qualifying filings, an amendment
C10_Witness ==
    /\ Selected /\ ~latest_only /\ fetch_mode = "10K_10Q"
    /\ \E i \in TaskIndices : \E c \in Candidates :
           /\ c.label = tasks_to_submit[i].assigned_period_label
           /\ DateLT(c.filing.filing_date, tasks_to_submit[i].filing_date)
           /\ tasks_to_submit[i].form = Form10KA
           /\ c.filing.form = Form10K

\* the feed position of the record a task was built from
RecordOfTask(i) ==
    CHOOSE k \in 1..Len(all_filings_raw) :
        all_filings_raw[k].accession_clean = tasks_to_submit[i].accession

\* C11: in a periodic latest-only run the newest-first scan stops at the first
\* eligible record: at most one task is emitted, it belongs to the newest-filed
\* record that is a 10-K/10-Q (amendment suffix stripped) with a report date,
\* a primary document and a label passing the cutoff, and no older record
\* produces a task or is looked at.
C11_LatestOnlyPeriodic ==
    (Selected /\ latest_only /\ fetch_mode = "10K_10Q") =>
        /\ Len(tasks_to_submit) <= 1
        /\ Candidates # {} => Len(tasks_to_submit) = 1
        /\ \A i \in TaskIndices :
               /\ \E c \in Candidates :
                      /\ c.filing.accession_clean = tasks_to_submit[i].accession
                      /\ c.label = tasks_to_submit[i].assigned_period_label
               /\ \A c \in Candidates :
                      ~DateLT(tasks_to_submit[i].filing_date, c.filing.filing_date)
               /\ \A k \in 1..Len(all_filings_raw) :
                      k > RecordOfTask(i) => ~Eligible10K(all_filings_raw[k])
               /\ scan_pos = Len(all_filings_raw) - RecordOfTask(i) + 1

\* a periodic latest-only run passed over the newest record, which did not
\* qualify, gave the task to the next one and never looked at an older record
\* that qualified as well
C11_Witness ==
    /\ Selected /\ latest_only /\ fetch_mode = "10K_10Q"
    /\ Len(tasks_to_submit) = 1
    /\ Cardinality(Candidates) = 2
    /\ scan_pos = 2
    /\ Len(all_filings_raw) = 3
    /\ \E c \in Candidates :
           DateLT(c.filing.filing_date, tasks_to_submit[1].filing_date)

\* C12: in an event-driven latest-only run exactly one task is emitted
\* whenever at least one candidate survives the URL dedup, and the task is for
\* the most recently filed earnings release among the surviving candidates.
C12_LatestOnlyEvent ==
    (Selected /\ latest_only /\ fetch_mode = "8K_Earnings"
        /\ unique_verified_exhibits # <<>>) =>
        /\ Len(tasks_to_submit) = 1
        /\ \A k \in 1..Len(unique_verified_exhibits) :
               ~DateLT(tasks_to_submit[1].filing_date,
                       unique_verified_exhibits[k].filing_date)

\* a periodic run that is not latest-only is in its scan or past it
InFullScan10K ==
    /\ fetch_mode = "10K_10Q"
    /\ ~latest_only
    /\ pc \in {"scan_10k", "execute", "done"}
    /\ outcome # "server_error"

\* the feed positions the newest-first scan has handled
Scanned == {k \in 1..Len(all_filings_raw) : k > Len(all_filings_raw) - scan_pos}

\* C23: in periodic full mode the records are iterated newest-first and a
\* record is skipped when a newer record has claimed its label: the claimed
\* labels are those of the eligible records handled so far, each task comes
\* from an eligible record with no newer eligible record of the same label,
\* which is the most recently filed one, every such record has its task, and
\* the tasks are in newest-first order.
C23_NewestClaimsLabel ==
    InFullScan10K =>
        /\ processed_periods =
               {PeriodOf(all_filings_raw[k]) :
                   k \in {j \in Scanned : Eligible10K(all_filings_raw[j])}}
        /\ \A i \in TaskIndices :
               \E k \in Scanned :
                   /\ Eligible10K(all_filings_raw[k])
                   /\ all_filings_raw[k].accession_clean = tasks_to_submit[i].accession
                   /\ PeriodOf(all_filings_raw[k]) = tasks_to_submit[i].assigned_period_label
                   /\ \A j \in 1..Len(all_filings_raw) :
                          (Eligible10K(all_filings_raw[j])
                              /\ PeriodOf(all_filings_raw[j]) = PeriodOf(all_filings_raw[k]))
                          => /\ j <= k
                             /\ ~DateLT(all_filings_raw[k].filing_date,
                                        all_filings_raw[j].filing_date)
        /\ \A k \in Scanned :
               (Eligible10K(all_filings_raw[k])
                   /\ \A j \in Scanned :
                          (j > k /\ Eligible10K(all_filings_raw[j]))
                              => PeriodOf(all_filings_raw[j]) # PeriodOf(all_filings_raw[k]))
               => \E i \in TaskIndices :
                      tasks_to_submit[i].accession = all_filings_raw[k].accession_clean
        /\ \A i, j \in TaskIndices :
               i < j => ~DateLT(tasks_to_submit[i].filing_date,
                                tasks_to_submit[j].filing_date)

\* in the middle of a full periodic scan: the 10-K/A filed last has the task
\* of its label, and the original 10-K, handled after it, was skipped
C23_Witness ==
    /\ InFullScan10K
    /\ pc = "scan_10k"
    /\ Len(tasks_to_submit) = 1
    /\ tasks_to_submit[1].form = Form10KA
    /\ \E k \in Scanned :
           /\ all_filings_raw[k].form = Form10K
           /\ Eligible10K(all_filings_raw[k])
           /\ PeriodOf(all_filings_raw[k]) = tasks_to_submit[1].assigned_period_label
           /\ DateLT(all_filings_raw[k].filing_date, tasks_to_submit[1].filing_date)

\* a record the periodic filters let through: an annual or quarterly report,
\* amendments included, with a report date and a primary document
PassesFilters10K(f) ==
    /\ \/ f.form \in {Form10K, Form10Q}
       \/ \E n \in 1..Len(f.form) :
              /\ f.form[n] = "/"
              /\ SubSeq(f.form, 1, n - 1) \in {Form10K, Form10Q}
              /\ \A m \in 1..(n - 1) : f.form[m] # "/"
    /\ ~f.report_date.isNone
    /\ f.primary_doc # ""

\* C25: in periodic mode every task comes from a record whose form, cut at
\* the '/', is 10-K or 10-Q and which has a report date and a primary
\* document; a record of another form, or without a report date or a primary
\* document, gives no task and claims no label (every claimed label is the
\* label of a task).
C25_PeriodicFilters ==
    (fetch_mode = "10K_10Q" /\ pc \in {"scan_10k", "execute", "done"}
        /\ outcome # "server_error") =>
        /\ \A i \in TaskIndices :
               \E k \in 1..Len(all_filings_raw) :
                   /\ all_filings_raw[k].accession_clean = tasks_to_submit[i].accession
                   /\ all_filings_raw[k].form = tasks_to_submit[i].form
                   /\ all_filings_raw[k].primary_doc = tasks_to_submit[i].target_url
                   /\ PassesFilters10K(all_filings_raw[k])
        /\ \A k \in 1..Len(all_filings_raw) :
               ~PassesFilters10K(all_filings_raw[k]) =>
                   \A i \in TaskIndices :
                       tasks_to_submit[i].accession # all_filings_raw[k].accession_clean
        /\ processed_periods =
               {tasks_to_submit[i].assigned_period_label : i \in TaskIndices}

\* a periodic scan over a 10-Q without a report date, a 10-K without a
\* primary document and an amendment ended with the amendment's task alone
C25_Witness ==
    /\ fetch_mode = "10K_10Q"
    /\ pc = "done"
    /\ outcome # "server_error"
    /\ Len(tasks_to_submit) = 1
    /\ tasks_to_submit[1].form = Form10KA
    /\ \E k \in 1..Len(all_filings_raw) :
           all_filings_raw[k].form = Form10Q /\ all_filings_raw[k].report_date.isNone
    /\ \E k \in 1..Len(all_filings_raw) :
           all_filings_raw[k].form = Form10K /\ all_filings_raw[k].primary_doc = ""

-----------------------------------------------------------------------------
(* Properties of the feed aggregation (SpecFeed)                            *)

\* the aggregated list has just been completed: dedup and sort are done, the
\* selection scan has not looked at a record yet
Aggregated == pc \in {"scan_10k", "gather_8k"} /\ scan_pos = 0

\* the six arrays line 1141 compares have one length
SixArraysAgree(sd) ==
    /\ Len(sd.form) = Len(sd.accessionNumber)
    /\ Len(sd.filingDate) = Len(sd.accessionNumber)
    /\ Len(sd.primaryDocument) = Len(sd.accessionNumber)
    /\ Len(sd.reportDate) = Len(sd.accessionNumber)
    /\ Len(sd.acceptanceDateTime) = Len(sd.accessionNumber)

\* all seven arrays have one length
AllArraysAgree(sd) == SixArraysAgree(sd) /\ Len(sd.items) = Len(sd.accessionNumber)

\* the indices of a fragment whose record is valid: its dates parse
ValidIndices(sd) == {i \in 1..Len(sd.accessionNumber) : DatesParse(sd, i)}

RECURSIVE SumOver(_, _)
\* the sum of count[k] over the indices k of ks
SumOver(ks, count) ==
    IF ks = {} THEN 0
    ELSE LET k == CHOOSE x \in ks : TRUE IN count[k] + SumOver(ks \ {k}, count)

\* the records collected from the fragments, in collection order, before the
\* dedup
Collected == CollectRecords(all_filing_sources)

\* C13: for every combination of fragments and every completion order the
\* aggregated list holds each cleaned accession at most once, the record kept
\* for an accession is its first occurrence across the collected fragments,
\* and the list is sorted ascending by filing date.
C13_DedupedAndSorted ==
    Aggregated =>
        LET c == Collected IN
        /\ \A i, j \in 1..Len(all_filings_raw) :
               i < j => /\ all_filings_raw[i].accession_clean
                              # all_filings_raw[j].accession_clean
                        /\ ~DateLT(all_filings_raw[j].filing_date,
                                   all_filings_raw[i].filing_date)
        /\ \A k \in 1..Len(c) :
               \E i \in 1..Len(all_filings_raw) :
                   all_filings_raw[i].accession_clean = c[k].accession_clean
        /\ \A i \in 1..Len(all_filings_raw) :
               \E k \in 1..Len(c) :
                   /\ c[k] = all_filings_raw[i]
                   /\ \A m \in 1..(k - 1) : c[m].accession_clean # c[k].accession_clean

\* two fragments carried one accession on different records, the record of
\* the fragment collected first was kept, and the sort moved a record
C13_Witness ==
    /\ Aggregated
    /\ LET c == Collected IN
       /\ Len(all_filings_raw) < Len(c)
       /\ \E k, m \in 1..Len(c) :
              /\ k < m
              /\ c[k].accession_clean = c[m].accession_clean
              /\ c[k].form # c[m].form
              /\ \E i \in 1..Len(all_filings_raw) : all_filings_raw[i] = c[k]
       /\ \E i \in 1..Len(all_filings_raw) : all_filings_raw[i] # c[i]

\* the historical files whose fetch succeeded
FetchedFiles == {k \in 1..Len(submissions.files) : submissions.files[k].ok}

\* the number of records the fragments of the feed must contribute: the valid
\* records of every fetched historical fragment whose compared arrays agree,
\* and those of the 'recent' fragment
ExpectedRecords ==
    SumOver({k \in FetchedFiles : SixArraysAgree(submissions.files[k].data)},
            [k \in 1..Len(submissions.files) |->
                Cardinality(ValidIndices(submissions.files[k].data))])
        + (IF submissions.recent.isNone THEN 0
           ELSE Cardinality(ValidIndices(submissions.recent.val)))

\* C14: whichever historical fetches fail, the aggregation completes: a failed
\* fragment contributes nothing, every fetched fragment and the 'recent'
\* fragment contribute all their valid records, and with a 'recent' fragment
\* the run goes on to selection instead of returning.
C14_FailedFragmentsSkipped ==
    (submissions.ok /\ pending = {}
        /\ pc \notin {"fetch_submissions", "historical", "as_completed"}) =>
        /\ Len(all_filing_sources)
               = Cardinality(FetchedFiles) + (IF submissions.recent.isNone THEN 0 ELSE 1)
        /\ \A k \in FetchedFiles :
               \E m \in 1..Len(all_filing_sources) :
                   all_filing_sources[m] = submissions.files[k].data
        /\ ~submissions.recent.isNone => outcome # "no_sources"
        /\ pc = "aggregate" =>
               /\ Len(all_filings_raw) = ExpectedRecords
               /\ \A k \in FetchedFiles :
                      LET sd == submissions.files[k].data IN
                      SixArraysAgree(sd) =>
                          \A i \in ValidIndices(sd) :
                              \E m \in 1..Len(all_filings_raw) :
                                  all_filings_raw[m] = RecordAt(sd, i)

\* one historical fetch failed, another delivered a fragment with a record
\* that is not valid followed by a valid one, and the records were collected
C14_Witness ==
    /\ pc = "aggregate"
    /\ Len(submissions.files) = 2
    /\ Cardinality(FetchedFiles) = 1
    /\ ~submissions.recent.isNone
    /\ \E k \in FetchedFiles :
           LET sd == submissions.files[k].data IN
           /\ SixArraysAgree(sd)
           /\ 1 \notin ValidIndices(sd)
           /\ 2 \in ValidIndices(sd)
    /\ Len(all_filings_raw) = 3

\* the number of records of the collected fragments that pass `agree`
RecordsOfAgreeing(agree(_)) ==
    SumOver({m \in 1..Len(all_filing_sources) : agree(all_filing_sources[m])},
            [m \in 1..Len(all_filing_sources) |->
                Cardinality(ValidIndices(all_filing_sources[m]))])

\* C15 as stated: a fragment in which any one of the seven parallel arrays,
\* the item codes included, differs in length from the others contributes no
\* record; the other fragments contribute theirs.
C15_Original ==
    pc = "aggregate" => Len(all_filings_raw) = RecordsOfAgreeing(AllArraysAgree)

\* C15, amended: a fragment is discarded as a whole when one of accession,
\* form, filing date, report date, primary document and acceptance timestamp
\* differs in length from the others; the item codes are not compared, a
\* shorter item array is padded with empty codes and the fragment's records
\* enter the list; the other fragments are unaffected.
C15_Amended ==
    pc = "aggregate" =>
        /\ Len(all_filings_raw) = RecordsOfAgreeing(SixArraysAgree)
        /\ \A m \in 1..Len(all_filing_sources) :
               LET sd == all_filing_sources[m] IN
               (SixArraysAgree(sd) /\ Len(sd.items) < Len(sd.accessionNumber)) =>
                   \A i \in ValidIndices(sd) :
                       \E k \in 1..Len(all_filings_raw) :
                           /\ all_filings_raw[k].accession_clean
                                  = RemoveDashes(sd.accessionNumber[i])
                           /\ all_filings_raw[k].form = sd.form[i]
                           /\ i > Len(sd.items) => all_filings_raw[k].items = <<"">>

\* a fragment with a short form array was discarded, and one with a short
\* item array delivered both its records
C15_Witness ==
    /\ pc = "aggregate"
    /\ Len(all_filing_sources) = 2
    /\ \E m \in 1..2 : ~SixArraysAgree(all_filing_sources[m])
                          /\ Len(all_filing_sources[m].form) = 1
    /\ \E m \in 1..2 : /\ SixArraysAgree(all_filing_sources[m])
                       /\ Len(all_filing_sources[m].items) = 1
    /\ Len(all_filings_raw) = 2

\* C17: when the submissions document cannot be fetched or parsed the request
\* is aborted before selection and dispatch: no task is created, the result
\* buckets and the report items are returned empty, no fragment is collected
\* and no historical file is requested.
C17_FeedFatal ==
    (~submissions.ok /\ pc # "fetch_submissions") =>
        /\ pc \in {"done", "responded"}
        /\ outcome = "feed_error"
        /\ tasks_to_submit = <<>>
        /\ processed_periods = {}
        /\ scan_pos = 0
        /\ pdf_files = EmptyBuckets
        /\ report_items = <<>>
        /\ all_filing_sources = <<>>
        /\ all_filings_raw = <<>>
        /\ requested = {SubmissionsName}
        /\ ~response.isNone => ~response.val.success

\* the request was answered after the fetch of the submissions document failed
C17_Witness ==
    /\ ~submissions.ok
    /\ pc = "responded"
    /\ outcome = "feed_error"
    /\ requested = {SubmissionsName}

\* line l is in the log of the answer
InAnswerLog(l) == \E k \in 1..Len(response.val.log) : response.val.log[k] = l

\* C20: the answer to a request that produced nothing because no filing
\* matched carries the line "No filings found matching criteria" in its log
\* and not the feed error; the answer to a request that produced nothing
\* because the feed could not be read carries the feed error and not that
\* line. (The message field of the two answers is the same, "No valid filings
\* found or processed."; the page shows the log and the message.)
C20_NoMatchMessage ==
    pc = "responded" =>
        /\ outcome = "no_filings" =>
               /\ ~response.val.success
               /\ InAnswerLog("No filings found matching criteria")
               /\ ~InAnswerLog("ERROR: Failed to retrieve/process submission data")
        /\ outcome = "feed_error" =>
               /\ ~response.val.success
               /\ InAnswerLog("ERROR: Failed to retrieve/process submission data")
               /\ ~InAnswerLog("No filings found matching criteria")

\* a request whose feed held filings, none of which matched, was answered
C20_Witness ==
    /\ pc = "responded"
    /\ outcome = "no_filings"
    /\ all_filings_raw # <<>>
    /\ ~response.val.success
    /\ response.val.log[Len(response.val.log)] = "No filings found matching criteria"

\* the feed lists no historical file and carries a 'recent' fragment, and the
\* request is past the reading of the sources
RecentOnly ==
    /\ submissions.ok
    /\ submissions.files = <<>>
    /\ ~submissions.recent.isNone
    /\ pc \notin {"fetch_submissions", "historical", "as_completed"}

\* C22: for a feed without historical fragments and with a 'recent' fragment
\* no fragment is requested (the submissions document is the only request),
\* 'recent' is the only source, and the aggregated list holds exactly the
\* valid records of 'recent', the first record of each accession, in
\* ascending filing-date order.
C22_RecentOnly ==
    RecentOnly =>
        LET sd == submissions.recent.val
            valid == IF SixArraysAgree(sd) THEN ValidIndices(sd) ELSE {}
        IN  /\ outcome # "no_sources"
            /\ requested = {SubmissionsName}
            /\ all_filing_sources = <<sd>>
            /\ pending = {}
            /\ Aggregated =>
                   /\ \A m \in 1..Len(all_filings_raw) :
                          \E i \in valid :
                              /\ all_filings_raw[m] = RecordAt(sd, i)
                              /\ \A j \in valid :
                                     j < i => RecordAt(sd, j).accession_clean
                                                  # RecordAt(sd, i).accession_clean
                   /\ \A i \in valid :
                          \E m \in 1..Len(all_filings_raw) :
                              all_filings_raw[m].accession_clean
                                  = RecordAt(sd, i).accession_clean
                   /\ \A m, n \in 1..Len(all_filings_raw) :
                          m < n => /\ all_filings_raw[m].accession_clean
                                         # all_filings_raw[n].accession_clean
                                   /\ ~DateLT(all_filings_raw[n].filing_date,
                                              all_filings_raw[m].filing_date)

\* a 'recent' fragment of four records, one with a date that does not parse
\* and one repeating an accession, gave two records, in the other order
C22_Witness ==
    /\ RecentOnly
    /\ Aggregated
    /\ Len(submissions.recent.val.accessionNumber) = 4
    /\ Len(all_filings_raw) = 2
    /\ all_filings_raw[1] = RecordAt(submissions.recent.val, 3)
    /\ all_filings_raw[2] = RecordAt(submissions.recent.val, 1)

\* the selection scan of the run raises an exception while it handles record f
RaisesInScan(f) == fetch_mode = "8K_Earnings" /\ f.items = NullItems

\* an 8-K record the event-driven selection accepts when nothing is raised:
\* an earnings item, a primary document, a resolved exhibit, a label that
\* passes the cutoff
Accepted8K(f) ==
    /\ IsEarnings8K(f)
    /\ f.primary_doc # ""
    /\ ~resolver_result[f.accession_clean].isNone
    /\ LET label == get_8k_period_label_by_distance(
                        f.filing_date, IntMonth(user_fy_end_month_int), fy_adjust)
       IN  /\ ~label.isNone
           /\ YearSuffix8K(label.val).ok
           /\ ~latest_only => ~IsCutOff8K(label.val, YearSuffix8K(label.val).val)

\* the selection of the request is over, one way or the other
SelectionOver ==
    /\ pc \in {"done", "responded"}
    /\ outcome \in {"no_filings", "dispatched", "main_error", "finished"}

\* C24: an exception raised while one record is handled in the selection scan
\* skips that record only: the scan is not aborted, no task comes from the
\* record, and the records that qualify still get their tasks (in an
\* event-driven full run every label of an accepted record has its task, in a
\* latest-only run an accepted record gives a task).
C24_RecordExceptionSkipsRecord ==
    SelectionOver =>
        /\ outcome # "main_error"
        /\ \A i \in TaskIndices : \A k \in 1..Len(all_filings_raw) :
               all_filings_raw[k].accession_clean = tasks_to_submit[i].accession
                   => ~RaisesInScan(all_filings_raw[k])
        /\ fetch_mode = "8K_Earnings" =>
               \A k \in 1..Len(all_filings_raw) :
                   Accepted8K(all_filings_raw[k]) => tasks_to_submit # <<>>

\* the aggregated list holds a record whose handling raises in this run
SomeRecordRaises == \E k \in 1..Len(all_filings_raw) : RaisesInScan(all_filings_raw[k])

\* the feed delivered some accession more than once
AccessionRepeated ==
    LET c == CollectRecords(all_filing_sources) IN
    \E i, j \in 1..Len(c) : i < j /\ c[i].accession_clean = c[j].accession_clean

\* C33: no two tasks of a run have the same output directory; the directory
\* of a task is named after the accession of the task, and no two tasks have
\* the same accession.
C33_DistinctDirectories ==
    /\ \A i \in 1..Len(tasks_to_submit) :
           tasks_to_submit[i].filing_output_dir[2] = tasks_to_submit[i].accession
    /\ \A i, j \in 1..Len(tasks_to_submit) :
           i < j => /\ tasks_to_submit[i].filing_output_dir
                           # tasks_to_submit[j].filing_output_dir
                    /\ tasks_to_submit[i].accession # tasks_to_submit[j].accession

\* a run whose feed delivered an accession twice has two tasks
C33_Witness ==
    /\ pc = "done"
    /\ Len(tasks_to_submit) >= 2
    /\ AccessionRepeated

-----------------------------------------------------------------------------
(* Properties of a request made twice (SpecOrders)                          *)

\* the second request has its task list
SecondRunOver == th.run = 2 /\ pc = "done"

\* C37: whatever the order in which the historical fragments complete, the
\* same accessions are emitted with the same labels: the second of two equal
\* requests ends with the labelled accessions of the first.
C37_OrderIndependent ==
    SecondRunOver => LabelledAccessions = th.first

\* both requests read the fragment with the annual report and the fragment
\* with the amendment filed on the same day; the label FY17 went to one
\* accession the first time and to the other the second time
OrderChangedTheTask ==
    /\ SecondRunOver
    /\ fetch_mode = "10K_10Q"
    /\ \E a \in th.first, b \in LabelledAccessions :
           /\ a.label = b.label
           /\ a.accession = <<"1", "1">>
           /\ b.accession = <<"6", "6">>

-----------------------------------------------------------------------------
(* Properties of robust_get (SpecGet)                                       *)

\* the answer asks for another attempt: 429, 503 or an error of the transport
Transient(answer) == answer.transport \/ answer.status \in {429, 503}

\* the number of requests the call has made
RequestsMade == Len(rg.answers)

\* C18: one robust_get call makes at most `retries` requests; a further
\* request follows only a 429/503 response or a transport error; any other
\* HTTP error status ends the call with that error right after its request;
\* and when the attempts are used up the last error is raised, no response is
\* returned.
C18_BoundedRetry ==
    /\ RequestsMade <= rg.retries
    /\ \A k \in 2..RequestsMade : Transient(rg.answers[k - 1])
    /\ \A k \in 1..RequestsMade :
           (RaisesHTTPError(rg.answers[k]) /\ ~Transient(rg.answers[k])) =>
               /\ k = RequestsMade
               /\ rg.pc = "raised"
               /\ rg.error = Some(rg.answers[k])
    /\ rg.pc = "returned" =>
           /\ rg.resp = Some(rg.answers[RequestsMade])
           /\ rg.answers[RequestsMade].status = 200
           /\ rg.error.isNone
    /\ (rg.pc \in {"returned", "raised"} /\ RequestsMade > 0
            /\ Transient(rg.answers[RequestsMade])) =>
           /\ RequestsMade = rg.retries
           /\ rg.pc = "raised"
           /\ rg.error = Some(rg.answers[RequestsMade])
           /\ rg.resp.isNone
    /\ (rg.pc \in {"returned", "raised"} /\ RequestsMade < rg.retries) =>
           ~Transient(rg.answers[RequestsMade])

\* a call with retries = 3 met a 429, a transport error and a 503, and raised
\* the 503
C18_Witness ==
    /\ rg.pc = "raised"
    /\ rg.retries = 3
    /\ RequestsMade = 3
    /\ rg.answers[1].status = 429
    /\ rg.answers[2].transport
    /\ rg.answers[3].status = 503
    /\ rg.error = Some(rg.answers[3])

RECURSIVE Power(_, _)
Power(base, n) == IF n = 0 THEN 1 ELSE base * Power(base, n - 1)

\* the position in rg.events of the k-th session.get of the call
RECURSIVE GetPosition(_, _)
GetPosition(k, from) ==
    IF rg.events[from].kind = "get"
    THEN IF k = 1 THEN from ELSE GetPosition(k - 1, from + 1)
    ELSE GetPosition(k, from + 1)

\* the sleeps of the call between its (k-1)-th request, or its start, and its
\* k-th request, in order
SleepsBefore(k) ==
    LET first == IF k = 1 THEN 1 ELSE GetPosition(k - 1, 1) + 1
        last == GetPosition(k, 1) - 1
    IN [i \in 1..(last - first + 1) |-> rg.events[first + i - 1].secs]

\* the wait before the k-th retry, which is the (k+1)-th request, is
\* delay * backoff^(k-1), whatever made the call retry
RetryWaits ==
    \A k \in 1..(RequestsMade - 1) :
        \E i \in 1..Len(SleepsBefore(k + 1)) :
            SleepsBefore(k + 1)[i] = rg.delay * Power(rg.backoff, k - 1)

\* C30 as stated: within one robust_get call the wait before the k-th retry
\* is delay * backoff^(k-1), after a 429/503 and after a transport error
\* alike, and the politeness delay is slept before every request the call
\* sends, the retried ones included.
C30_Original ==
    /\ RetryWaits
    /\ \A k \in 1..RequestsMade :
           \E i \in 1..Len(SleepsBefore(k)) : SleepsBefore(k)[i] = PolitenessDelay

\* C30: within one robust_get call the wait before the k-th retry is
\* delay * backoff^(k-1), after a 429/503 and after a transport error alike;
\* the politeness delay is slept once, at the start of the call and before
\* its first request; a retried request is preceded by its backoff wait
\* alone.
C30_Amended ==
    /\ RetryWaits
    /\ rg.pc # "start" =>
           /\ rg.events[1] = Sleep(PolitenessDelay)
           /\ RequestsMade >= 1 => SleepsBefore(1) = <<PolitenessDelay>>
    /\ \A k \in 1..(RequestsMade - 1) :
           SleepsBefore(k + 1) = <<rg.delay * Power(rg.backoff, k - 1)>>

\* a call with delay 0.5 s was answered 429, then met a transport error, then
\* was answered 200: it slept 0.1 s, 0.5 s and 1 s, each before one request
C30_Witness ==
    /\ rg.pc = "returned"
    /\ rg.delay = 5
    /\ RequestsMade = 3
    /\ rg.answers[1].status = 429
    /\ rg.answers[2].transport
    /\ rg.events = <<Sleep(1), SessionGet, Sleep(5), SessionGet, Sleep(10), SessionGet>>

-----------------------------------------------------------------------------
(* Properties of the exhibit resolver (SpecResolve)                         *)

\* the call returned from the hyperlink stage
ReturnedFromLinks == rs.pc = "done" /\ rs.stage = "hyperlink"

\* the candidate built from the link with text 'Q3 2024 Earnings Release' and
\* href ex99-1.htm
IsEarningsReleaseCandidate(c) ==
    c.description = TextEarningsRelease /\ c.filename = <<"e", "x", "9", "9", "-", "1", ".", "h", "t", "m">>

\* C19: among the hyperlink candidates the resolver returns the one with the
\* lowest priority number (EX-99.1 = 1, EX-99.2 = 2, bare EX-99 = 3), the
\* first in document order among equals; the link 'Q3 2024 Earnings Release'
\* with href ex99-1.htm is a candidate of type EX-99.1 and priority 1, and
\* with a bare EX-99 link beside it the returned candidate has type EX-99.1.
C19_LowestPriorityWins ==
    ReturnedFromLinks =>
        LET cs == rs.candidate_links IN
        /\ \A k \in 1..Len(cs) :
               /\ cs[k].priority = 1 <=> cs[k].type = TypeEX991
               /\ cs[k].priority = 2 <=> cs[k].type = TypeEX992
               /\ cs[k].priority = 3 <=> cs[k].type = TypeEX99
               /\ IsEarningsReleaseCandidate(cs[k]) =>
                      cs[k].type = TypeEX991 /\ cs[k].priority = 1
        /\ \E k \in 1..Len(cs) :
               /\ rs.ret = Some(WithoutPriority(cs[k]))
               /\ \A j \in 1..Len(cs) : cs[j].priority >= cs[k].priority
               /\ \A j \in 1..(k - 1) : cs[j].priority > cs[k].priority
        /\ (\E k \in 1..Len(cs) : IsEarningsReleaseCandidate(cs[k])) =>
               rs.ret.val.type = TypeEX991

\* a bare EX-99 link came first in the document, the link 'Q3 2024 Earnings
\* Release' second, and the resolver returned the second
C19_Witness ==
    /\ ReturnedFromLinks
    /\ Len(rs.candidate_links) = 2
    /\ rs.candidate_links[1].type = TypeEX99
    /\ rs.candidate_links[1].priority = 3
    /\ IsEarningsReleaseCandidate(rs.candidate_links[2])
    /\ rs.ret.val.description = TextEarningsRelease
    /\ rs.ret.val.type = TypeEX991

\* the links stage 1 has looked at
ScannedLinks ==
    SubSeq(LinksOf(rs.doc), 1, IF rs.pc = "links" \/ ReturnedFromLinks THEN rs.i ELSE 0)

\* a keyword pattern matches the text of the link or of its table row
LinkHasKeyword(link) ==
    KeywordMatch(Lower(link.text) \o <<" ">> \o Lower(link.parent_row))

\* an exhibit-number pattern matches the href or the text of the link
LinkHasExhibitNumber(link) ==
    ExhibitMatch(Lower(link.href) \o <<" ">> \o Lower(link.text))

\* the URL the link resolves to names the primary document
PointsAtPrimary(link) ==
    Contains(Lower(Urljoin(primary_doc_url, link.href)), Lower(primary_doc_filename))

\* C31: every hyperlink candidate comes from a link that matches a keyword
\* pattern and an exhibit-number pattern and whose resolved URL does not
\* point back at the primary document; links with one match only, and links
\* to the primary document, add no candidate.
C31_CandidateNeedsBoth ==
    LET eligible == {k \in 1..Len(ScannedLinks) :
                        /\ LinkHasKeyword(ScannedLinks[k])
                        /\ LinkHasExhibitNumber(ScannedLinks[k])
                        /\ ~PointsAtPrimary(ScannedLinks[k])}
    IN  /\ Len(rs.candidate_links) <= Cardinality(eligible)
        /\ \A j \in 1..Len(rs.candidate_links) :
               \E k \in eligible :
                   /\ rs.candidate_links[j].url
                          = Urljoin(primary_doc_url, ScannedLinks[k].href)
                   /\ rs.candidate_links[j].description = ScannedLinks[k].text

\* stage 1 has looked at a link with an exhibit number and no keyword and at
\* a link with both that points at the primary document, and has no
\* candidate; or at a link with a keyword and no exhibit number
C31_Witness ==
    /\ rs.pc = "links"
    /\ Len(ScannedLinks) = 2
    /\ rs.candidate_links = <<>>
    /\ \/ /\ LinkHasExhibitNumber(ScannedLinks[1]) /\ ~LinkHasKeyword(ScannedLinks[1])
          /\ LinkHasExhibitNumber(ScannedLinks[2]) /\ LinkHasKeyword(ScannedLinks[2])
          /\ PointsAtPrimary(ScannedLinks[2])
       \/ /\ LinkHasKeyword(ScannedLinks[1]) /\ ~LinkHasExhibitNumber(ScannedLinks[1])
          /\ ~PointsAtPrimary(ScannedLinks[1])
          /\ LinkHasExhibitNumber(ScannedLinks[2]) /\ ~LinkHasKeyword(ScannedLinks[2])

-----------------------------------------------------------------------------
(* Properties of an 8K_Earnings run with its resolver calls (SpecEvent)     *)

\* some link of the document passes the tests of the hyperlink stage
HasLinkCandidate(doc) ==
    \E j \in 1..Len(LinksOf(doc)) :
        /\ ~SkippedHref(Lower(LinksOf(doc)[j].href))
        /\ LinkHasKeyword(LinksOf(doc)[j])
        /\ LinkHasExhibitNumber(LinksOf(doc)[j])
        /\ ~PointsAtPrimary(LinksOf(doc)[j])

\* the j-th table row of the document matches a keyword and an exhibit
\* pattern and holds a .htm/.html file name
RowHit(doc, j) ==
    /\ KeywordMatch(Lower(RowsOf(doc)[j]))
    /\ ExhibitMatch(Lower(RowsOf(doc)[j]))
    /\ ~FirstFilename(RowsOf(doc)[j]).isNone

\* the task list holds a task of this accession
HasTask(accession) ==
    \E t \in 1..Len(tasks_to_submit) : tasks_to_submit[t].accession = accession

\* the exhibit of this accession was retained in phase 1
Retained(accession) ==
    \E e \in 1..Len(potential_exhibits_with_filing) :
        potential_exhibits_with_filing[e].original_filing.accession_clean = accession

\* C32: the text search of the resolver runs only when no hyperlink became a
\* candidate; it returns the file name of the first table row, in document
\* order, that matches a keyword and an exhibit pattern and holds a
\* .htm/.html file name; when neither stage finds anything the resolver
\* returns none, the filing is not retained and no task is built for it.
C32_TextFallback ==
    /\ rs.pc = "done" =>
           LET rows == 1..Len(RowsOf(rs.doc)) IN
           /\ rs.stage \in {"text", "nothing"} => ~HasLinkCandidate(rs.doc)
           /\ rs.stage = "text" =>
                  /\ ~rs.ret.isNone
                  /\ \E j \in rows :
                         /\ RowHit(rs.doc, j)
                         /\ \A m \in 1..(j - 1) : ~RowHit(rs.doc, m)
                         /\ rs.ret.val.filename = FirstFilename(RowsOf(rs.doc)[j]).val
           /\ rs.stage = "nothing" =>
                  /\ \A j \in rows : ~RowHit(rs.doc, j)
                  /\ rs.ret.isNone
    /\ \A k \in 1..Len(rs.calls) :
           rs.calls[k].ret.isNone =>
               ~Retained(rs.calls[k].accession) /\ ~HasTask(rs.calls[k].accession)

\* the run is over: one resolver call passed a row without a file name and
\* returned the file of the next row, and its filing has a task; another found
\* nothing in either stage, and its filing has none
C32_Witness ==
    /\ pc = "done"
    /\ \E k1, k2 \in 1..Len(rs.calls) :
           /\ rs.calls[k1].doc = <<RowWithoutFile, RowNamingFile>>
           /\ rs.calls[k1].stage = "text"
           /\ rs.calls[k1].ret.val.filename = <<"e", "x", "9", "9", "1", ".", "h", "t", "m">>
           /\ HasTask(rs.calls[k1].accession)
           /\ rs.calls[k2].stage = "nothing"
           /\ ~HasTask(rs.calls[k2].accession)

\* the resolver call for this accession failed at the fetch or the parse
ResolverFailed(accession) ==
    \E k \in 1..Len(rs.calls) :
        rs.calls[k].accession = accession /\ rs.calls[k].stage = "error"

\* the resolver call for this accession has returned
ResolverReturned(accession) ==
    \E k \in 1..Len(rs.calls) : rs.calls[k].accession = accession

\* phase 1 takes the return of the resolver call for the record it is at
TakesReturn == rs.pc = "done" /\ rs'.pc = "idle"

\* C39: a resolver call that fails at the fetch or the parse of the primary
\* document returns none; its filing is not retained and gets no task; phase
\* 1 treats the return as it treats a document without an exhibit and goes on
\* to the next record; the run is never aborted, and when it is over every
\* 8-K with item 2.02 or 9.01 and a primary document has been asked about.
C39_ResolverFailureDropsFiling ==
    /\ [](/\ outcome # "main_error"
          /\ (rs.pc = "done" /\ rs.stage = "error") => rs.ret.isNone
          /\ \A k \in 1..Len(all_filings_raw) :
                 ResolverFailed(all_filings_raw[k].accession_clean) =>
                     /\ ~Retained(all_filings_raw[k].accession_clean)
                     /\ ~HasTask(all_filings_raw[k].accession_clean)
          /\ (pc = "done" /\ outcome # "server_error") =>
                 \A k \in 1..Len(all_filings_raw) :
                     AsksResolver(all_filings_raw[k]) =>
                         ResolverReturned(all_filings_raw[k].accession_clean))
    /\ [][(TakesReturn /\ rs.ret.isNone) =>
              /\ scan_pos' = scan_pos + 1
              /\ pc' = "gather_8k"
              /\ outcome' = outcome
              /\ potential_exhibits_with_filing' = potential_exhibits_with_filing
              /\ tasks_to_submit' = tasks_to_submit
              /\ log_lines' = Append(log_lines, "no true earnings exhibit found")]_vars

\* the run is over: the resolver call for the first record failed, the call
\* for a later record found an exhibit, and that record has a task
C39_Witness ==
    /\ pc = "done"
    /\ outcome = "dispatched"
    /\ Len(rs.calls) = 2
    /\ rs.calls[1].stage = "error"
    /\ ~HasTask(rs.calls[1].accession)
    /\ rs.calls[2].stage = "hyperlink"
    /\ HasTask(rs.calls[2].accession)

-----------------------------------------------------------------------------
(* Properties of the task pipeline (SpecPool)                               *)

InPool == pc = "pool" \/ (pc \in {"done", "responded"} /\ outcome = "finished")

PoolFinished == pc \in {"done", "responded"} /\ outcome = "finished"

\* the tasks whose result the collecting loop has taken and that succeeded
CollectedOk == {k \in 1..Len(futures) :
                    futures[k].state = "collected" /\ futures[k].stage = "ok"}

BucketKeys == {"10-K", "10-Q", "8-K_ER"}

ArtifactCount == SumOver(BucketKeys, [key \in BucketKeys |-> Len(pdf_files[key])])

\* C16: a task that fails at any stage (download, decode, asset handling,
\* write, render) comes back from the worker as (form, None, None); it adds
\* nothing to the buckets or the report items; once the pool has finished
\* every task has run to an outcome and been collected, and the number of
\* PDFs in the buckets, and of report items, is the number of tasks that
\* succeeded, each under the bucket of its form.
C16_FailureIsolated ==
    InPool =>
        /\ ArtifactCount = Cardinality(CollectedOk)
        /\ Len(report_items) = Cardinality(CollectedOk)
        /\ \A k \in 1..Len(futures) :
               futures[k].state \in {"done", "collected"} =>
                   /\ futures[k].stage \in WorkerOutcomes
                   /\ futures[k].result.form = tasks_to_submit[k].form
                   /\ futures[k].stage # "ok" =>
                          /\ futures[k].result.pdf_path = NoneVal
                          /\ futures[k].result.generated_pdf_basename = NoneVal
                          /\ \A key \in BucketKeys : \A j \in 1..Len(pdf_files[key]) :
                                 pdf_files[key][j].dir # tasks_to_submit[k].accession
        /\ \A k \in CollectedOk : \E key \in BucketKeys : \E j \in 1..Len(pdf_files[key]) :
               pdf_files[key][j].dir = tasks_to_submit[k].accession
        /\ PoolFinished =>
               /\ Len(futures) = Len(tasks_to_submit)
               /\ \A k \in 1..Len(futures) : futures[k].state = "collected"
               /\ ArtifactCount = Cardinality({k \in 1..Len(futures) :
                                                   futures[k].stage = "ok"})

\* three tasks, the second failed at the render and the others succeeded:
\* the pool finished with two PDFs and two report items
C16_Witness ==
    /\ PoolFinished
    /\ Len(futures) = 3
    /\ futures[1].stage = "ok"
    /\ futures[2].stage = "render"
    /\ futures[3].stage = "ok"
    /\ ArtifactCount = 2
    /\ Len(report_items) = 2

\* how far a future has come
Rank(f) == IF f.state = "submitted" THEN 0 ELSE IF f.state = "done" THEN 1 ELSE 2

\* the number of lines l in the log
CountLines(l) == Cardinality({k \in 1..Len(log_lines) : log_lines[k] = l})

\* every task has one future, every taken result is one artifact or one
\* logged failure
Accounted ==
    InPool =>
        /\ Len(futures) = Len(tasks_to_submit)
        /\ Len(report_items) + CountLines("did not yield a PDF")
               = Cardinality({k \in 1..Len(futures) : futures[k].state = "collected"})
        /\ CountLines("Successfully processed PDF") = Len(report_items)
        /\ PoolFinished =>
               /\ \A k \in 1..Len(futures) : futures[k].state = "collected"
               /\ progress_data.current = Len(tasks_to_submit)
               /\ progress_data.total = Len(tasks_to_submit)

\* a future is submitted once and never again, its result is taken once: no
\* future goes back, and a step takes at most one result
OnceEach ==
    (futures # <<>> /\ futures' # <<>>) =>
        /\ Len(futures') = Len(futures)
        /\ \A k \in 1..Len(futures) : Rank(futures'[k]) >= Rank(futures[k])
        /\ Cardinality({k \in 1..Len(futures) :
                           Rank(futures[k]) < 2 /\ Rank(futures'[k]) = 2}) <= 1

\* C28: every task of the list is submitted once and its outcome is taken
\* once; with workers that return, the run ends with every task accounted
\* for as one artifact or one failure and the progress counter at the number
\* of tasks.
C28_AllTasksAccounted ==
    /\ []Accounted
    /\ [][OnceEach]_vars
    /\ <>(PoolFinished /\ progress_data.current = Len(tasks_to_submit)
             /\ Len(report_items) + CountLines("did not yield a PDF")
                    = Len(tasks_to_submit))

\* a pool of three tasks ended with one artifact and two logged failures
C28_Witness ==
    /\ PoolFinished
    /\ Len(tasks_to_submit) = 3
    /\ progress_data.current = 3
    /\ Len(report_items) = 1
    /\ CountLines("did not yield a PDF") = 2

-----------------------------------------------------------------------------
(* Properties of the final counts (SpecRun)                                 *)

\* process_filing has returned: with no filings, after an error, or after
\* the pool
RunEnded == pc = "done" /\ outcome \notin {"running", "dispatched"}

\* the tasks whose worker returned a path and a file name
ReturnedArtifact ==
    {k \in 1..Len(futures) :
        /\ futures[k].state \in {"done", "collected"}
        /\ ~futures[k].result.pdf_path.isNone
        /\ ~futures[k].result.generated_pdf_basename.isNone}

\* C38: when a run ends, the report items are as many as the artifact paths
\* of the three buckets 10-K, 10-Q and 8-K_ER together, both are as many as
\* the tasks whose worker returned an artifact, and never more than the
\* tasks emitted; the buckets are the three the run started with.
C38_CountsAgree ==
    RunEnded =>
        /\ DOMAIN pdf_files = BucketKeys
        /\ Len(report_items) = ArtifactCount
        /\ ArtifactCount = Cardinality(ReturnedArtifact)
        /\ Cardinality(ReturnedArtifact) <= Len(tasks_to_submit)

\* a periodic run ended with two tasks emitted, one of them for an amended
\* annual report: its worker returned a PDF, the other's did not, and there
\* is one report item and one path, under 10-K
C38_Witness ==
    /\ RunEnded
    /\ outcome = "finished"
    /\ Len(tasks_to_submit) = 2
    /\ \E k \in ReturnedArtifact : tasks_to_submit[k].form = Form10KA
    /\ Cardinality(ReturnedArtifact) = 1
    /\ Len(report_items) = 1
    /\ Len(pdf_files["10-K"]) = 1

-----------------------------------------------------------------------------
(* Properties of repeated classifier calls (SpecRepeat)                     *)

\* the calls that have returned, the one in cl included
ReturnedCalls ==
    {cl.prev[k] : k \in 1..Len(cl.prev)}
        \cup (IF cl.done THEN {[args |-> ArgsOf(cl), ret |-> cl.ret]} ELSE {})

\* C21: both period classifiers are functions of their arguments: two calls
\* with the same (function, form, date, fyem, basis) return the same label,
\* whatever calls were made before or between them.
C21_Deterministic ==
    \A c1, c2 \in ReturnedCalls : c1.args = c2.args => c1.ret = c2.ret

\* the distance classifier returned 1Q25 for 15 July 2024 and month 3, was
\* then called for the other basis, and returned 1Q25 again for the first
\* arguments
C21_Witness ==
    /\ cl.done
    /\ cl.fn = "distance"
    /\ Len(cl.prev) = 2
    /\ cl.prev[1].args = ArgsOf(cl)
    /\ cl.prev[2].args # ArgsOf(cl)
    /\ cl.prev[2].ret # cl.ret
    /\ cl.date = Date(MaxYear - 2, 7, 15)
    /\ cl.fyem = IntMonth(3)
    /\ cl.ret = cl.prev[1].ret
    /\ ~cl.ret.isNone

-----------------------------------------------------------------------------
(* Properties of a whole request (SpecRun)                                  *)

\* the state the selection scan writes
selection_vars == <<all_filings_raw, scan_pos, potential_exhibits_with_filing,
                    unique_verified_exhibits, processed_periods, tasks_to_submit>>

\* C26: no task is in the worker pool before the selection scan has finished:
\* a step after which a task is submitted or running starts from a state in
\* which the selection is over (the task list has gone to Execute Tasks), and
\* it leaves the claimed labels, the dedup results and the task list as they
\* are, so every claim and dedup decision precedes the first task and no
\* worker changes them.
C26_SelectionBeforeDispatch ==
    [][futures' # <<>> =>
          /\ pc \in {"done", "pool"}
          /\ outcome \in {"dispatched", "finished"}
          /\ UNCHANGED selection_vars
          /\ Len(futures') = Len(tasks_to_submit)]_vars

\* a full periodic run claimed two labels, then submitted its two tasks, and
\* one worker has returned while the other task waits
C26_Witness ==
    /\ pc = "pool"
    /\ fetch_mode = "10K_10Q"
    /\ Cardinality(processed_periods) = 2
    /\ Len(futures) = 2
    /\ scan_pos = Len(all_filings_raw)
    /\ futures[1].state = "done"
    /\ futures[2].state = "submitted"

\* the step that opens the fragment fetch, and the step that opens the task
\* pipeline
FragmentPhaseStarts == pc = "historical" /\ pc' = "as_completed"

PipelinePhaseStarts == pc # "pool" /\ pc' = "pool"

\* C35: in a run on its own the progress record, as it stands whenever
\* progress_lock is free, has 0 <= current <= total; current goes down only
\* where a phase starts; and the start of the task pipeline sets current to 0
\* and total to the number of tasks in one critical section.
C35_ProgressWithinBounds ==
    /\ [](0 <= progress_data.current /\ progress_data.current <= progress_data.total)
    /\ [][progress_data'.current < progress_data.current =>
              FragmentPhaseStarts \/ PipelinePhaseStarts]_vars
    /\ [][PipelinePhaseStarts =>
              /\ progress_data'.current = 0
              /\ progress_data'.total = Len(tasks_to_submit)]_vars

\* the one historical fragment was fetched, which left current = total = 1,
\* and the pipeline of two tasks has started with current = 0 and total = 2
C35_Witness ==
    /\ pc = "pool"
    /\ Len(submissions.files) = 1
    /\ Len(tasks_to_submit) = 2
    /\ progress_data.current = 0
    /\ progress_data.total = 2

-----------------------------------------------------------------------------
(* Properties of the pipeline's shared state (SpecLock)                     *)

\* the step is the run of a worker thread: a submitted task's worker returns
WorkerStep ==
    /\ futures # <<>>
    /\ Len(futures') = Len(futures)
    /\ \E k \in 1..Len(futures) :
           futures[k].state = "submitted" /\ futures'[k].state = "done"

\* the step is the read of a /progress request
PollStep == th.poll = "locked" /\ th'.poll = "read"

\* a progress record as it stands between two with blocks of the pipeline
WholeProgress(p) ==
    /\ p.text = "" => p.total = 0 /\ p.current = 0
    /\ p.text = "Starting download" => p.total = Len(tasks_to_submit) /\ p.current = 0
    /\ p.text = "Downloading and processing" =>
           p.total = Len(tasks_to_submit) /\ p.current \in 1..Len(tasks_to_submit)
    /\ p.text = "Processing complete." =>
           p.total = Len(tasks_to_submit) /\ p.current = Len(tasks_to_submit)

\* the progress counters are written by the pipeline and read by a /progress
\* request only under the lock, and a request never reads a half-written
\* record; the buckets and the report items are written only by the
\* orchestrating thread when it takes a result
LockDiscipline ==
    /\ progress_data' # progress_data =>
           /\ th.holder = "orchestrator"
           /\ th'.holder = "orchestrator"
           /\ ~WorkerStep
    /\ PollStep =>
           /\ th.holder = "poller"
           /\ th'.seen = Some(progress_data)
           /\ WholeProgress(progress_data)
    /\ (pdf_files' # pdf_files \/ report_items' # report_items) =>
           /\ th.orch = "result"
           /\ ~WorkerStep

\* C27 as stated: the shared state of the pipeline is the progress counters,
\* under the lock, and the buckets and report items, written by the
\* orchestrating thread only; a worker thread writes no shared structure.
C27_Original ==
    [][/\ LockDiscipline
       /\ WorkerStep => UNCHANGED <<pdf_files, report_items, progress_data, log_lines,
                                    tasks_to_submit, processed_periods, response>>]_vars

\* C27, amended: the progress counters are read and written only under the
\* lock, the buckets and report items are written only by the orchestrating
\* thread as it takes results, and the log transcript is shared as well: a
\* worker thread appends to it, without a lock, and writes nothing else that
\* is shared.
C27_Amended ==
    [][/\ LockDiscipline
       /\ WorkerStep =>
              /\ UNCHANGED <<pdf_files, report_items, progress_data,
                             tasks_to_submit, processed_periods, response>>
              /\ Len(log_lines') >= Len(log_lines)
              /\ SubSeq(log_lines', 1, Len(log_lines)) = log_lines]_vars

\* the orchestrating thread is inside its with block, between the two
\* assignments, a /progress request waits, and the last line of the log is
\* the error a worker thread has just appended
C27_Witness ==
    /\ th.holder = "orchestrator"
    /\ th.orch = "tick_current"
    /\ th.poll = "idle"
    /\ progress_data.text = "Downloading and processing"
    /\ progress_data.current = 0
    /\ log_lines # <<>>
    /\ log_lines[Len(log_lines)] = "ERROR processing"
    /\ \E k \in 1..Len(futures) : futures[k].state = "yielded"

-----------------------------------------------------------------------------
(* Properties of two concurrent requests (SpecTwo)                          *)

\* C36: with two requests running in one process every snapshot the
\* progress endpoint returns has 0 <= current <= total, and its current and
\* its total were written by the same request.
C36_SnapshotOfOneRun ==
    ~th.seen.isNone =>
        /\ 0 <= th.seen.val.current
        /\ th.seen.val.current <= th.seen.val.total
        /\ th.seen.val.total_by = th.seen.val.current_by

\* request 1 has two tasks and has counted one, request 2 with one task has
\* reset the record, request 1 has counted its second: /progress answers
\* current = 2 and total = 1
MixedSnapshot ==
    /\ ~th.seen.isNone
    /\ th.seen.val.current = 2
    /\ th.seen.val.total = 1
    /\ th.seen.val.current_by = 1
    /\ th.seen.val.total_by = 2

-----------------------------------------------------------------------------
(* Properties of one worker (SpecWorker)                                    *)

\* C29: when the worker returns, with a PDF or after a failure at any stage,
\* the intermediate HTML file and every asset file it wrote is gone or its
\* removal was attempted; a removal that failed is in the log; and the
\* worker returns the PDF whenever the render produced it, whatever the
\* cleanup met.
C29_CleanupAlways ==
    futures[1].returned =>
        LET w == futures[1] IN
        /\ w.html_written => ~w.html_on_disk \/ w.attempted_html
        /\ \A a \in w.assets_written : a \notin w.assets_on_disk \/ a \in w.attempted_assets
        /\ (w.html_on_disk /\ w.attempted_html) =>
               \E k \in 1..Len(log_lines) : log_lines[k] = "ERROR: Cleanup exception"
        /\ (\E a \in w.attempted_assets : a \in w.assets_on_disk) =>
               \E k \in 1..Len(log_lines) : log_lines[k] = "Warning: Error cleaning asset"
        /\ w.stage = "ok" <=> YieldsPdf(w.result)

\* the worker returned its PDF although the HTML file could not be removed,
\* and the two assets it had written are still there, their removal not
\* attempted
HtmlRemovalFailed ==
    /\ futures[1].returned
    /\ futures[1].stage = "ok"
    /\ futures[1].html_on_disk
    /\ futures[1].attempted_html
    /\ futures[1].assets_on_disk = {1, 2}
    /\ futures[1].attempted_assets = {}

====
